---- MODULE Spec2Model ----
(***************************************************************************)
(* A model of gitai's change analysis and context enrichment:              *)
(*   core/models.py        FileChange, DiffAnalysis and its heuristics     *)
(*   core/git_analyzer.py  GitAnalyzer.get_staged_changes and              *)
(*                         GitAnalyzer.get_branch_changes                  *)
(*   templates/context.py  ContextBuilder (classification, enrichment,     *)
(*                         issue extraction, context dictionaries)         *)
(*                                                                         *)
(* Python strings are TLA+ strings; a character is a string of length 1.   *)
(* Python lists are sequences, Python sets are sets, dataclasses and       *)
(* dictionaries are records.  An exception leaving a method is a result    *)
(* record whose kind is "raise".                                           *)
(***************************************************************************)
EXTENDS Integers, Sequences, FiniteSets, TLC

VARIABLES
    pc,            \* position of the running invocation
    call,          \* the operation called last, with everything it read
    result,        \* what that operation returned or raised
    context,       \* the dictionary built last by build_*_context
    prev_context,  \* the dictionary built by the call before that one
    now,           \* the wall clock read by datetime.now()
    arg,           \* input of the pure function under study
    fn,            \* the pure function applied last
    ret,           \* its return value
    queries,       \* the git queries of the last operation, in their order
    events         \* what a provider operation did, in order: HTTP requests,
                   \* sleeps, constructions and health checks of providers

vars == <<pc, call, result, context, prev_context, now, arg, fn, ret, queries, events>>

(***************************************************************************)
(* Bounds of the model.                                                    *)
(***************************************************************************)
MaxEntries == 2       \* staged entries plus untracked files of one call
MaxNumstatLines == 2  \* numstat lines of one branch diff
MaxFiles == 2         \* files of a hand-built DiffAnalysis (rich records)
MaxKindFiles == 4     \* files of a hand-built DiffAnalysis (kinds only)
MaxTokens == 3        \* tokens of a text given to the issue extractor
MaxShareFiles == 90   \* files of a list given to _is_docs_change, _is_test_change
MaxPatchLines == 2    \* newline-ended lines of a patch given to _count_diff_lines
MaxLongLines == 9     \* lines of a long patch, of which two in three are changed lines
MaxRetries == 3       \* largest max_retries of an OllamaProvider
MaxFallbacks == 2     \* fallback providers given to create_with_fallback

(***************************************************************************)
(* Python values.                                                          *)
(***************************************************************************)
None == "<None>"

Min(a, b) == IF a <= b THEN a ELSE b
Max(a, b) == IF a >= b THEN a ELSE b
Abs(a) == IF a >= 0 THEN a ELSE 0 - a

Range(s) == {s[i] : i \in 1..Len(s)}

RECURSIVE SumOver(_, _)
SumOver(s, i) == IF i > Len(s) THEN 0 ELSE s[i] + SumOver(s, i + 1)

\* sum(s) of a list of integers
Sum(s) == SumOver(s, 1)

(***************************************************************************)
(* Values of the variables that hold nothing yet.                          *)
(***************************************************************************)
NoCall == [op |-> "none"]
NoResult == [kind |-> "none"]
NoContext == [timestamp |-> 0 - 1]

Return(analysis) == [kind |-> "return", analysis |-> analysis]

\* raise error(...) from cause
Raise(error, cause) == [kind |-> "raise", error |-> error, cause |-> cause]

(***************************************************************************)
(* str operations.                                                         *)
(***************************************************************************)
Char(s, i) == SubSeq(s, i, i)

StartsWithAt(s, i, p) ==
    /\ i >= 1
    /\ i + Len(p) - 1 <= Len(s)
    /\ SubSeq(s, i, i + Len(p) - 1) = p

\* str.startswith
StartsWith(s, p) == StartsWithAt(s, 1, p)

\* str.endswith
EndsWith(s, p) == StartsWithAt(s, Len(s) - Len(p) + 1, p)

\* p in s
Contains(s, p) == \E i \in 1..(Len(s) + 1) : StartsWithAt(s, i, p)

\* the lower-case form of each upper-case ASCII letter
LowerOf ==
    [A |-> "a", B |-> "b", C |-> "c", D |-> "d", E |-> "e", F |-> "f", G |-> "g",
     H |-> "h", I |-> "i", J |-> "j", K |-> "k", L |-> "l", M |-> "m", N |-> "n",
     O |-> "o", P |-> "p", Q |-> "q", R |-> "r", S |-> "s", T |-> "t", U |-> "u",
     V |-> "v", W |-> "w", X |-> "x", Y |-> "y", Z |-> "z"]

LowerChar(c) == IF c \in DOMAIN LowerOf THEN LowerOf[c] ELSE c

RECURSIVE LowerFrom(_, _)
LowerFrom(s, i) ==
    IF i > Len(s) THEN "" ELSE LowerChar(Char(s, i)) \o LowerFrom(s, i + 1)

\* str.lower, which is also how re.IGNORECASE compares the ASCII letters
ToLower(s) == LowerFrom(s, 1)

Digits == {"0", "1", "2", "3", "4", "5", "6", "7", "8", "9"}
IsDigit(c) == c \in Digits
Whitespace == {" ", "\t", "\n", "\r", "\f"}

\* positions of the occurrences of the character c in s
Positions(s, c) == {i \in 1..Len(s) : Char(s, i) = c}

SetMax(S) == CHOOSE m \in S : \A k \in S : k <= m
SetMin(S) == CHOOSE m \in S : \A k \in S : m <= k

\* s.split(c)[-1]
AfterLast(s, c) ==
    IF Positions(s, c) = {} THEN s
    ELSE SubSeq(s, SetMax(Positions(s, c)) + 1, Len(s))

\* c.join(s.split(c)[:-1])
BeforeLast(s, c) ==
    IF Positions(s, c) = {} THEN ""
    ELSE SubSeq(s, 1, SetMax(Positions(s, c)) - 1)

RECURSIVE SplitFrom(_, _, _)
SplitFrom(s, c, i) ==
    LET later == {k \in Positions(s, c) : k >= i}
    IN  IF later = {} THEN <<SubSeq(s, i, Len(s))>>
        ELSE <<SubSeq(s, i, SetMin(later) - 1)>>
             \o SplitFrom(s, c, SetMin(later) + 1)

\* s.split(c) for a one-character separator c
Split(s, c) == SplitFrom(s, c, 1)

RECURSIVE JoinFrom(_, _, _)
JoinFrom(c, parts, i) ==
    IF i > Len(parts) THEN ""
    ELSE IF i = Len(parts) THEN parts[i]
    ELSE parts[i] \o c \o JoinFrom(c, parts, i + 1)

\* c.join(parts)
Join(c, parts) == JoinFrom(c, parts, 1)

\* s.strip()
Strip(s) ==
    LET keep == {i \in 1..Len(s) : Char(s, i) \notin Whitespace}
    IN  IF keep = {} THEN "" ELSE SubSeq(s, SetMin(keep), SetMax(keep))

\* s[:n]
Prefix(s, n) == SubSeq(s, 1, Min(n, Len(s)))

\* s[:n] of a list
Take(s, n) == SubSeq(s, 1, Min(n, Len(s)))

(***************************************************************************)
(* core/models.py                                                          *)
(***************************************************************************)
ADDED == "A"
MODIFIED == "M"
DELETED == "D"
RENAMED == "R"
COPIED == "C"
UNMERGED == "U"
UNKNOWN == "?"
BROKEN == "B"

\* the members of the enum ChangeType
ChangeType == {ADDED, MODIFIED, DELETED, RENAMED, COPIED, UNMERGED, UNKNOWN, BROKEN}

\* the dataclass FileChange; content_preview and old_path have defaults
FileChange(path, change_type, lines_added, lines_removed, content_preview, old_path) ==
    [path |-> path, change_type |-> change_type, lines_added |-> lines_added,
     lines_removed |-> lines_removed, content_preview |-> content_preview,
     old_path |-> old_path]

\* the dataclass DiffAnalysis
DiffAnalysis(files_changed, total_additions, total_deletions, change_summary, commit_context, repository_info) ==
    [files_changed |-> files_changed, total_additions |-> total_additions,
     total_deletions |-> total_deletions, change_summary |-> change_summary,
     commit_context |-> commit_context, repository_info |-> repository_info]

file_count(d) == Len(d.files_changed)

\* any(fc.change_type in kinds for fc in self.files_changed)
AnyOfType(d, kinds) == \E i \in 1..Len(d.files_changed) : d.files_changed[i].change_type \in kinds

\* the set behind the sorted list file_extensions
file_extensions(d) ==
    {ToLower(AfterLast(d.files_changed[i].path, ".")) :
        i \in {k \in 1..Len(d.files_changed) : Contains(d.files_changed[k].path, ".")}}

\* the set behind the sorted list affected_directories
affected_directories(d) ==
    {BeforeLast(d.files_changed[i].path, "/") : i \in 1..Len(d.files_changed)} \ {""}

PrimaryExtensions == {"py", "js", "ts", "java", "cpp", "c"}
common_scopes == <<"src", "lib", "tests", "docs", "config">>

\* the element of a set of one element: s[0] of the sorted list
TheOne(S) == CHOOSE x \in S : TRUE

get_change_scope(d) ==
    LET dirs == affected_directories(d)
        exts == file_extensions(d)
        hits == {k \in 1..Len(common_scopes) :
                    \E dir \in dirs : Contains(dir, common_scopes[k])}
    IN  IF Cardinality(dirs) = 1 THEN TheOne(dirs)
        ELSE IF Cardinality(exts) = 1 /\ TheOne(exts) \in PrimaryExtensions THEN TheOne(exts)
        ELSE IF hits # {} THEN common_scopes[SetMin(hits)]
        ELSE IF file_count(d) > 1 THEN "core" ELSE ""

\* the branch of get_change_scope that returns: 1 the only directory, 2 the
\* only extension, 3 a common scope, 4 the fallback "core" or ""
ScopeRule(d) ==
    LET dirs == affected_directories(d)
        exts == file_extensions(d)
    IN  IF Cardinality(dirs) = 1 THEN 1
        ELSE IF Cardinality(exts) = 1 /\ TheOne(exts) \in PrimaryExtensions THEN 2
        ELSE IF \E k \in 1..Len(common_scopes) : \E dir \in dirs : Contains(dir, common_scopes[k]) THEN 3
        ELSE 4

is_likely_feature_at_least_twice(d) ==
    /\ d.total_additions >= d.total_deletions * 2
    /\ file_count(d) > 1
    /\ AnyOfType(d, {ADDED})

is_likely_feature(d) ==
    /\ d.total_additions > d.total_deletions * 2
    /\ file_count(d) > 1
    /\ AnyOfType(d, {ADDED})

is_likely_fix_with_new_files(d) ==
    /\ file_count(d) <= 3
    /\ d.total_additions > 0
    /\ d.total_deletions > 0

is_likely_fix_under_three(d) ==
    /\ file_count(d) < 3
    /\ ~AnyOfType(d, {ADDED})
    /\ d.total_additions > 0
    /\ d.total_deletions > 0

is_likely_fix(d) ==
    /\ file_count(d) <= 3
    /\ ~AnyOfType(d, {ADDED})
    /\ d.total_additions > 0
    /\ d.total_deletions > 0

is_likely_refactor_up_to_30_percent(d) ==
    /\ 10 * Abs(d.total_additions - d.total_deletions)
           <= 3 * Max(d.total_additions, d.total_deletions)
    /\ AnyOfType(d, {RENAMED, COPIED})

\* abs(a - d) < max(a, d) * 0.3, both sides scaled by 10: the product with
\* the double 0.3 is never above the exact value, and the left side is an
\* integer, so the comparison agrees with the exact one.
is_likely_refactor(d) ==
    /\ 10 * Abs(d.total_additions - d.total_deletions)
           < 3 * Max(d.total_additions, d.total_deletions)
    /\ AnyOfType(d, {RENAMED, COPIED})

(***************************************************************************)
(* core/git_analyzer.py: helpers of GitAnalyzer.                           *)
(***************************************************************************)
\* the defaults of max_lines and the width a preview line is cut to
max_lines == 5
PreviewWidth == 100

\* ^ under re.MULTILINE: the start of the text or the position after "\n"
AtLineStart(t, i) == i = 1 \/ Char(t, i - 1) = "\n"

RECURSIVE CountSignFrom(_, _, _)
\* len(re.findall(r"^\+[^+]", t, re.MULTILINE)) for sign = "+", and the
\* same with "-": a match is the sign at a line start and one more character
\* (a newline too) that is not the sign; the search resumes after a match,
\* at the next line start that has a character after it
CountSignFrom(t, sign, i) ==
    LET starts == {k \in i..(Len(t) - 1) : AtLineStart(t, k)}
        next == SetMin(starts)
    IN  IF starts = {} THEN 0
        ELSE IF Char(t, next) = sign /\ Char(t, next + 1) # sign
        THEN 1 + CountSignFrom(t, sign, next + 2)
        ELSE CountSignFrom(t, sign, next + 1)

\* diff_item.diff is bytes; anything else makes decode raise, and the
\* except clause returns 0, 0
_count_diff_lines(diff_item) ==
    IF diff_item.diff = None THEN <<0, 0>>
    ELSE <<CountSignFrom(diff_item.diff, "+", 1), CountSignFrom(diff_item.diff, "-", 1)>>

RECURSIVE PreviewFrom_uncut(_, _, _)
PreviewFrom_uncut(lines, i, content_lines) ==
    IF i > Len(lines) THEN content_lines
    ELSE LET line == lines[i]
         IN  IF StartsWith(line, "@@") \/ StartsWith(line, "+++") \/ StartsWith(line, "---")
             THEN PreviewFrom_uncut(lines, i + 1, content_lines)
             ELSE IF (StartsWith(line, "+") \/ StartsWith(line, "-"))
                     /\ Len(content_lines) < max_lines
             THEN PreviewFrom_uncut(lines, i + 1, Append(content_lines, line))
             ELSE PreviewFrom_uncut(lines, i + 1, content_lines)

RECURSIVE PreviewFrom(_, _, _)
\* the loop over the lines of a patch that _get_diff_item_preview and
\* _get_diff_preview share
PreviewFrom(lines, i, content_lines) ==
    IF i > Len(lines) THEN content_lines
    ELSE LET line == lines[i]
         IN  IF StartsWith(line, "@@") \/ StartsWith(line, "+++") \/ StartsWith(line, "---")
             THEN PreviewFrom(lines, i + 1, content_lines)
             ELSE IF (StartsWith(line, "+") \/ StartsWith(line, "-"))
                     /\ Len(content_lines) < max_lines
             THEN PreviewFrom(lines, i + 1, Append(content_lines, Prefix(line, PreviewWidth)))
             ELSE PreviewFrom(lines, i + 1, content_lines)

PatchPreview(diff_text) == Join("\n", PreviewFrom(Split(diff_text, "\n"), 1, <<>>))

_get_diff_item_preview(diff_item) ==
    IF diff_item.diff = None THEN "" ELSE PatchPreview(diff_item.diff)

\* "x or y" for two optional str
Or(x, y) == IF x # None /\ x # "" THEN x ELSE y

_parse_diff_item(diff_item) ==
    LET change_type ==
            IF diff_item.new_file THEN ADDED
            ELSE IF diff_item.deleted_file THEN DELETED
            ELSE IF diff_item.renamed_file THEN RENAMED
            ELSE IF diff_item.copied_file THEN COPIED
            ELSE MODIFIED
        counted == _count_diff_lines(diff_item)
    IN  FileChange(Or(diff_item.b_path, diff_item.a_path),
                   change_type,
                   counted[1],
                   counted[2],
                   _get_diff_item_preview(diff_item),
                   IF diff_item.renamed_file THEN diff_item.a_path ELSE None)

\* content.splitlines() of a text whose only line boundary is "\n"
SplitLines(content) ==
    IF content = "" THEN <<>>
    ELSE IF EndsWith(content, "\n") THEN Split(SubSeq(content, 1, Len(content) - 1), "\n")
    ELSE Split(content, "\n")

\* _get_file_preview of a readable file
_get_file_preview(content) ==
    LET lines == Take(Split(content, "\n"), max_lines)
    IN  Join("\n", [i \in 1..Len(lines) |-> Prefix(lines[i], PreviewWidth)])

\* the number of file_changes of one change type, as text
CountOf(file_changes, t) ==
    Cardinality({i \in 1..Len(file_changes) : file_changes[i].change_type = t})

SummaryParts_without_renamed(file_changes) ==
    (IF CountOf(file_changes, ADDED) > 0
     THEN <<ToString(CountOf(file_changes, ADDED)) \o " added">> ELSE <<>>)
    \o (IF CountOf(file_changes, MODIFIED) > 0
        THEN <<ToString(CountOf(file_changes, MODIFIED)) \o " modified">> ELSE <<>>)
    \o (IF CountOf(file_changes, DELETED) > 0
        THEN <<ToString(CountOf(file_changes, DELETED)) \o " deleted">> ELSE <<>>)

SummaryParts(file_changes) ==
    (IF CountOf(file_changes, ADDED) > 0
     THEN <<ToString(CountOf(file_changes, ADDED)) \o " added">> ELSE <<>>)
    \o (IF CountOf(file_changes, MODIFIED) > 0
        THEN <<ToString(CountOf(file_changes, MODIFIED)) \o " modified">> ELSE <<>>)
    \o (IF CountOf(file_changes, DELETED) > 0
        THEN <<ToString(CountOf(file_changes, DELETED)) \o " deleted">> ELSE <<>>)
    \o (IF CountOf(file_changes, RENAMED) > 0
        THEN <<ToString(CountOf(file_changes, RENAMED)) \o " renamed">> ELSE <<>>)

\* the variant that has no words for an empty list
AnalyzerChangeSummary_empty_for_no_files(file_changes) ==
    IF Len(file_changes) = 0 THEN ""
    ELSE IF Len(file_changes) = 1 THEN "1 file " \o Join(", ", SummaryParts(file_changes))
    ELSE ToString(Len(file_changes)) \o " files (" \o Join(", ", SummaryParts(file_changes)) \o ")"

\* GitAnalyzer._generate_change_summary
AnalyzerChangeSummary(file_changes) ==
    IF Len(file_changes) = 0 THEN "No changes"
    ELSE IF Len(file_changes) = 1 THEN "1 file " \o Join(", ", SummaryParts(file_changes))
    ELSE ToString(Len(file_changes)) \o " files (" \o Join(", ", SummaryParts(file_changes)) \o ")"

\* GitAnalyzer._get_repository_info; a failing remote lookup leaves "" there
RepositoryInfo == [name |-> "auto-git", path |-> "/work/auto-git", remote_url |-> ""]

\* GitAnalyzer._build_commit_context, once active_branch has been read
_build_commit_context(branch) == [branch |-> branch, last_commit |-> "", author |-> ""]

\* what the two except clauses at the end of get_staged_changes and of
\* get_branch_changes raise for an exception that reaches them
Reraise(exception) ==
    IF exception = "GitCommandError"
    THEN Raise("GitOperationError", exception)
    ELSE Raise("GitAnalysisError", exception)

\* file_changes, total_additions, total_deletions before the loops
NoChanges == [file_changes |-> <<>>, total_additions |-> 0, total_deletions |-> 0]

(***************************************************************************)
(* GitAnalyzer.get_staged_changes.  The argument c is the call: the value  *)
(* of include_untracked and what the repository and the file system        *)
(* answer.  A DiffItem is a record of the attributes read from a git.Diff. *)
(***************************************************************************)
\* one turn of the loop over staged_diff
ProcessStagedItem(acc, diff_item) ==
    LET file_change == _parse_diff_item(diff_item)
    IN  [file_changes |-> Append(acc.file_changes, file_change),
         total_additions |-> acc.total_additions + file_change.lines_added,
         total_deletions |-> acc.total_deletions + file_change.lines_removed]

\* the loop turn that appends the file and leaves the running totals alone
ProcessUntrackedFile_total_unchanged(acc, f) ==
    IF f.state = "file"
    THEN [acc EXCEPT !.file_changes =
            Append(acc.file_changes,
                   FileChange(f.path, ADDED, Len(SplitLines(f.content)), 0,
                              _get_file_preview(f.content), None))]
    ELSE acc

\* the loop turn that lists a file it could not read as an empty new file
ProcessUntrackedFile_keeping_unreadable(acc, f) ==
    IF f.state \in {"file", "unreadable"}
    THEN LET lines == Len(SplitLines(f.content))
         IN  [file_changes |->
                 Append(acc.file_changes,
                        FileChange(f.path, ADDED, lines, 0, _get_file_preview(f.content), None)),
              total_additions |-> acc.total_additions + lines,
              total_deletions |-> acc.total_deletions]
    ELSE acc

\* one turn of the loop over untracked_files; f.state tells what the path
\* is on disk: "file" (readable, with f.content), "unreadable" (read_text
\* raises, the except clause logs a warning), "directory" or "missing"
ProcessUntrackedFile(acc, f) ==
    IF f.state = "file"
    THEN LET lines == Len(SplitLines(f.content))
         IN  [file_changes |->
                 Append(acc.file_changes,
                        FileChange(f.path, ADDED, lines, 0, _get_file_preview(f.content), None)),
              total_additions |-> acc.total_additions + lines,
              total_deletions |-> acc.total_deletions]
    ELSE acc

RECURSIVE StagedLoop(_, _, _)
StagedLoop(acc, staged_diff, i) ==
    IF i > Len(staged_diff) THEN acc
    ELSE StagedLoop(ProcessStagedItem(acc, staged_diff[i]), staged_diff, i + 1)

RECURSIVE UntrackedLoop(_, _, _)
UntrackedLoop(acc, untracked_files, i) ==
    IF i > Len(untracked_files) THEN acc
    ELSE UntrackedLoop(ProcessUntrackedFile(acc, untracked_files[i]), untracked_files, i + 1)

get_staged_changes(c) ==
    IF c.git_error = "index.diff" THEN Reraise("GitCommandError")
    ELSE IF c.include_untracked /\ c.git_error = "untracked_files" THEN Reraise("GitCommandError")
    ELSE LET staged_diff == c.staged
             untracked_files == IF c.include_untracked THEN c.untracked ELSE <<>>
         IN  IF Len(staged_diff) = 0 /\ Len(untracked_files) = 0
             THEN Reraise("NoStagedChangesError")
             ELSE LET acc == UntrackedLoop(StagedLoop(NoChanges, staged_diff, 1), untracked_files, 1)
                  IN  IF c.detached THEN Reraise("TypeError")
                      ELSE Return(DiffAnalysis(acc.file_changes,
                                               acc.total_additions,
                                               acc.total_deletions,
                                               AnalyzerChangeSummary(acc.file_changes),
                                               _build_commit_context(c.branch),
                                               RepositoryInfo))

(***************************************************************************)
(* GitAnalyzer.get_branch_changes.  The call c holds base_branch and the   *)
(* answers of git: whether fetch, the numstat against origin/<base> and    *)
(* the numstat against <base> fail, the numstat text, and per path the     *)
(* answers to the name-status query and to the preview diff.               *)
(***************************************************************************)
\* the answer of a git query that raises GitCommandError
GitFails == "<GitCommandError>"

\* the answers git gives for file_path: those of the first record of
\* c.answers filed under that path; a path git knows nothing of gets ""
AnswersFor(c, file_path) ==
    LET known == {i \in 1..Len(c.answers) : c.answers[i].path = file_path}
    IN  IF known = {} THEN [path |-> file_path, status |-> "", preview |-> ""]
        ELSE c.answers[SetMin(known)]

\* s.isdigit() for ASCII text
IsDigitStr(s) == s # "" /\ \A i \in 1..Len(s) : IsDigit(Char(s, i))

DigitValue ==
    [c \in Digits |->
        CASE c = "0" -> 0 [] c = "1" -> 1 [] c = "2" -> 2 [] c = "3" -> 3 [] c = "4" -> 4
          [] c = "5" -> 5 [] c = "6" -> 6 [] c = "7" -> 7 [] c = "8" -> 8 [] c = "9" -> 9]

RECURSIVE IntOfPrefix(_, _)
IntOfPrefix(s, n) ==
    IF n = 0 THEN 0 ELSE 10 * IntOfPrefix(s, n - 1) + DigitValue[Char(s, n)]

\* int(s) of a string of digits
IntOf(s) == IntOfPrefix(s, Len(s))

\* the variant whose default is UNKNOWN
_determine_change_type_from_diff_default_unknown(c, base_ref, file_path) ==
    LET status == AnswersFor(c, file_path).status
        first == Split(status, "\t")[1]
    IN  IF status = GitFails THEN UNKNOWN
        ELSE IF status = "" THEN UNKNOWN
        ELSE IF first = "" THEN UNKNOWN
        ELSE IF Char(first, 1) \in ChangeType THEN Char(first, 1)
        ELSE UNKNOWN

\* ChangeType(status.split("\t")[0][0]) of a non-empty answer; a failing
\* query, an IndexError and a ValueError all end in the except clause
_determine_change_type_from_diff(c, base_ref, file_path) ==
    LET status == AnswersFor(c, file_path).status
        first == Split(status, "\t")[1]
    IN  IF status = GitFails THEN MODIFIED
        ELSE IF status = "" THEN MODIFIED
        ELSE IF first = "" THEN MODIFIED
        ELSE IF Char(first, 1) \in ChangeType THEN Char(first, 1)
        ELSE MODIFIED

_get_diff_preview(c, base_ref, file_path) ==
    LET diff_output == AnswersFor(c, file_path).preview
    IN  IF diff_output = GitFails THEN "" ELSE PatchPreview(diff_output)

\* one turn of the loop over the lines of the numstat output
ProcessNumstatLine(acc, line, c, base_ref) ==
    LET parts == Split(line, "\t")
        binary == parts[1] = "-" \/ parts[2] = "-"
        additions == IF binary THEN 0 ELSE IF IsDigitStr(parts[1]) THEN IntOf(parts[1]) ELSE 0
        deletions == IF binary THEN 0 ELSE IF IsDigitStr(parts[2]) THEN IntOf(parts[2]) ELSE 0
    IN  IF Strip(line) = "" THEN acc
        ELSE IF Len(parts) < 3 THEN acc
        ELSE [file_changes |->
                 Append(acc.file_changes,
                        FileChange(parts[3],
                                   _determine_change_type_from_diff(c, base_ref, parts[3]),
                                   additions,
                                   deletions,
                                   _get_diff_preview(c, base_ref, parts[3]),
                                   None)),
              total_additions |-> acc.total_additions + additions,
              total_deletions |-> acc.total_deletions + deletions]

RECURSIVE NumstatLoop(_, _, _, _, _)
NumstatLoop(acc, lines, i, c, base_ref) ==
    IF i > Len(lines) THEN acc
    ELSE NumstatLoop(ProcessNumstatLine(acc, lines[i], c, base_ref), lines, i + 1, c, base_ref)

get_branch_changes_without_early_return(c) ==
    IF c.detached THEN Reraise("TypeError")
    ELSE IF c.remote_fails /\ c.local_fails THEN Reraise("GitCommandError")
    ELSE LET base_ref == IF c.remote_fails THEN c.base_branch ELSE "origin/" \o c.base_branch
             diff == Strip(c.numstat)
             acc == NumstatLoop(NoChanges, Split(diff, "\n"), 1, c, base_ref)
         IN  IF c.commits_fail THEN Reraise("GitCommandError")
             ELSE Return(DiffAnalysis(acc.file_changes,
                                      acc.total_additions,
                                      acc.total_deletions,
                                      AnalyzerChangeSummary(acc.file_changes),
                                      [current_branch |-> c.branch,
                                       base_branch |-> c.base_branch,
                                       commit_count |-> c.commit_count],
                                      RepositoryInfo))

get_branch_changes(c) ==
    IF c.detached THEN Reraise("TypeError")
    ELSE IF c.remote_fails /\ c.local_fails THEN Reraise("GitCommandError")
    ELSE LET base_ref == IF c.remote_fails THEN c.base_branch ELSE "origin/" \o c.base_branch
             diff == Strip(c.numstat)
             acc == NumstatLoop(NoChanges, Split(diff, "\n"), 1, c, base_ref)
         IN  IF diff = ""
             THEN Return(DiffAnalysis(<<>>, 0, 0, "No changes found",
                                      [current_branch |-> c.branch, base_branch |-> c.base_branch],
                                      RepositoryInfo))
             ELSE IF c.commits_fail THEN Reraise("GitCommandError")
             ELSE Return(DiffAnalysis(acc.file_changes,
                                      acc.total_additions,
                                      acc.total_deletions,
                                      AnalyzerChangeSummary(acc.file_changes),
                                      [current_branch |-> c.branch,
                                       base_branch |-> c.base_branch,
                                       commit_count |-> c.commit_count],
                                      RepositoryInfo))

(***************************************************************************)
(* The queries the two methods send to git, in the order they send them:   *)
(* the command, the reference it names, the path it is restricted to, and  *)
(* whether git answered with a GitCommandError.                            *)
(***************************************************************************)
Query(cmd, ref, path, failed) == [cmd |-> cmd, ref |-> ref, path |-> path, failed |-> failed]

\* index.diff("HEAD"), then repo.untracked_files if include_untracked
StagedQueries(c) ==
    <<Query("index.diff", "HEAD", "", c.git_error = "index.diff")>>
    \o (IF c.git_error # "index.diff" /\ c.include_untracked
        THEN <<Query("untracked_files", "", "", c.git_error = "untracked_files")>>
        ELSE <<>>)

LineQueries_on_remote(line, c, base_ref) ==
    LET parts == Split(line, "\t")
    IN  IF Strip(line) = "" \/ Len(parts) < 3 THEN <<>>
        ELSE <<Query("diff --name-status", "origin/" \o c.base_branch, parts[3],
                     AnswersFor(c, parts[3]).status = GitFails),
               Query("diff", "origin/" \o c.base_branch, parts[3],
                     AnswersFor(c, parts[3]).preview = GitFails)>>

\* the queries of one turn of the loop over the numstat lines:
\* _determine_change_type_from_diff, then _get_diff_preview
LineQueries(line, c, base_ref) ==
    LET parts == Split(line, "\t")
    IN  IF Strip(line) = "" \/ Len(parts) < 3 THEN <<>>
        ELSE <<Query("diff --name-status", base_ref, parts[3],
                     AnswersFor(c, parts[3]).status = GitFails),
               Query("diff", base_ref, parts[3],
                     AnswersFor(c, parts[3]).preview = GitFails)>>

RECURSIVE NumstatQueries(_, _, _, _)
NumstatQueries(lines, i, c, base_ref) ==
    IF i > Len(lines) THEN <<>>
    ELSE LineQueries(lines[i], c, base_ref) \o NumstatQueries(lines, i + 1, c, base_ref)

\* what follows the numstat that succeeded: nothing for an empty diff,
\* else the queries of the lines and the commit count
QueriesAfterNumstat(c, base_ref) ==
    IF Strip(c.numstat) = "" THEN <<>>
    ELSE NumstatQueries(Split(Strip(c.numstat), "\n"), 1, c, base_ref)
         \o <<Query("rev-list", base_ref, "", c.commits_fail)>>

BranchQueries_local_first(c) ==
    LET fetch == Query("fetch", "origin/" \o c.base_branch, "", c.fetch_fails)
        remote == Query("diff --numstat", "origin/" \o c.base_branch, "", c.remote_fails)
        local == Query("diff --numstat", c.base_branch, "", c.local_fails)
    IN  IF c.detached THEN <<fetch>>
        ELSE IF ~c.local_fails
             THEN <<fetch, local>> \o QueriesAfterNumstat(c, c.base_branch)
        ELSE IF c.remote_fails THEN <<fetch, local, remote>>
        ELSE <<fetch, local, remote>> \o QueriesAfterNumstat(c, "origin/" \o c.base_branch)

\* get_branch_changes: fetch, the numstat against origin/<base>, on its
\* failure the numstat against <base>, then the rest with the base_ref set
\* by the numstat that succeeded; reading the branch name of a detached
\* HEAD raises before any numstat
BranchQueries(c) ==
    LET fetch == Query("fetch", "origin/" \o c.base_branch, "", c.fetch_fails)
        remote == Query("diff --numstat", "origin/" \o c.base_branch, "", c.remote_fails)
        local == Query("diff --numstat", c.base_branch, "", c.local_fails)
    IN  IF c.detached THEN <<fetch>>
        ELSE IF ~c.remote_fails
             THEN <<fetch, remote>> \o QueriesAfterNumstat(c, "origin/" \o c.base_branch)
        ELSE IF c.local_fails THEN <<fetch, remote, local>>
        ELSE <<fetch, remote, local>> \o QueriesAfterNumstat(c, c.base_branch)

(***************************************************************************)
(* templates/context.py: file classification.  re.search finds the pattern *)
(* anywhere in the path; a trailing $ anchors its end to the end of the    *)
(* path; re.IGNORECASE compares the lower-cased path.                      *)
(***************************************************************************)
\* a.*b$ : a somewhere, and the path ends with b after it
ThenEndsWith(s, a, b) ==
    /\ EndsWith(s, b)
    /\ \E i \in 1..Len(s) : StartsWithAt(s, i, a) /\ i + Len(a) <= Len(s) - Len(b) + 1

_is_test_file(path) ==
    LET p == ToLower(path)
    IN  \/ ThenEndsWith(p, "test_", ".py")      \* test_.*\.py$
        \/ EndsWith(p, "_test.py")              \* .*_test\.py$
        \/ EndsWith(p, ".test.js")              \* .*\.test\.js$
        \/ EndsWith(p, ".spec.js")              \* .*\.spec\.js$
        \/ Contains(p, "test/")                 \* tests?/.*
        \/ Contains(p, "tests/")
        \/ Contains(p, "spec/")                 \* spec/.*
        \/ Contains(p, "__tests__/")            \* __tests__/.*

_is_config_file(path) ==
    LET p == ToLower(path)
    IN  \/ \E e \in {"js", "ts", "json", "yaml", "yml"} : EndsWith(p, ".config." \o e)
        \/ Contains(p, ".env")                  \* .*\.env.*
        \/ Contains(p, "dockerfile")            \* Dockerfile.*
        \/ EndsWith(p, ".ini")
        \/ EndsWith(p, ".cfg")
        \/ EndsWith(p, "pyproject.toml")
        \/ EndsWith(p, "package.json")
        \/ ThenEndsWith(p, "requirements", ".txt")  \* requirements.*\.txt$
        \/ EndsWith(p, "gemfile")
        \/ EndsWith(p, "pom.xml")

_is_docs_file(path) ==
    LET p == ToLower(path)
    IN  \/ EndsWith(p, ".md")
        \/ EndsWith(p, ".rst")
        \/ EndsWith(p, ".txt")
        \/ Contains(p, "doc/")                  \* docs?/.*
        \/ Contains(p, "docs/")
        \/ Contains(p, "readme")
        \/ Contains(p, "changelog")
        \/ Contains(p, "license")

\* self.language_map.get(extension)
language_map(ext) ==
    CASE ext = "py" -> "python"
      [] ext = "js" -> "javascript"
      [] ext = "ts" -> "typescript"
      [] ext = "java" -> "java"
      [] ext = "cpp" -> "cpp"
      [] ext = "c" -> "c"
      [] ext = "h" -> "c"
      [] ext = "rs" -> "rust"
      [] ext = "go" -> "go"
      [] ext = "php" -> "php"
      [] ext = "rb" -> "ruby"
      [] ext = "swift" -> "swift"
      [] ext = "kt" -> "kotlin"
      [] ext = "cs" -> "csharp"
      [] ext = "html" -> "html"
      [] ext = "css" -> "css"
      [] ext = "scss" -> "scss"
      [] ext = "json" -> "json"
      [] ext = "yaml" -> "yaml"
      [] ext = "yml" -> "yaml"
      [] ext = "xml" -> "xml"
      [] ext = "sql" -> "sql"
      [] ext = "sh" -> "shell"
      [] OTHER -> None

_detect_language(path) ==
    IF ~Contains(path, ".") THEN None
    ELSE language_map(ToLower(AfterLast(path, ".")))

_generate_file_description(file_change, is_test, is_config, is_docs) ==
    IF is_test THEN "Test file"
    ELSE IF is_config THEN "Configuration file"
    ELSE IF is_docs THEN "Documentation"
    ELSE IF file_change.change_type = ADDED THEN "New file"
    ELSE IF file_change.lines_added > file_change.lines_removed * 3 THEN "Major additions"
    ELSE IF file_change.lines_removed > file_change.lines_added * 3 THEN "Major deletions"
    ELSE "Updated"

change_type_map_renamed_as_modified(t) ==
    CASE t = ADDED -> "added"
      [] t = MODIFIED -> "modified"
      [] t = DELETED -> "deleted"
      [] t = RENAMED -> "modified"
      [] t = COPIED -> "copied"
      [] OTHER -> "changed"

\* change_type_map.get(file_change.change_type, "changed")
change_type_map(t) ==
    CASE t = ADDED -> "added"
      [] t = MODIFIED -> "modified"
      [] t = DELETED -> "deleted"
      [] t = RENAMED -> "renamed"
      [] t = COPIED -> "copied"
      [] OTHER -> "changed"

_enhance_file_change_by_old_path(file_change) ==
    LET name == IF file_change.old_path # None THEN file_change.old_path ELSE file_change.path
        is_test == _is_test_file(name)
        is_config == _is_config_file(name)
        is_docs == _is_docs_file(name)
    IN  [path |-> file_change.path,
         change_type |-> change_type_map(file_change.change_type),
         lines_added |-> file_change.lines_added,
         lines_deleted |-> file_change.lines_removed,
         description |-> _generate_file_description(file_change, is_test, is_config, is_docs),
         is_test |-> is_test,
         is_config |-> is_config,
         is_docs |-> is_docs,
         language |-> _detect_language(name)]

_enhance_file_change(file_change) ==
    LET is_test == _is_test_file(file_change.path)
        is_config == _is_config_file(file_change.path)
        is_docs == _is_docs_file(file_change.path)
    IN  [path |-> file_change.path,
         change_type |-> change_type_map(file_change.change_type),
         lines_added |-> file_change.lines_added,
         lines_deleted |-> file_change.lines_removed,
         description |-> _generate_file_description(file_change, is_test, is_config, is_docs),
         is_test |-> is_test,
         is_config |-> is_config,
         is_docs |-> is_docs,
         language |-> _detect_language(file_change.path)]

(***************************************************************************)
(* templates/context.py: enrichment of a DiffAnalysis.                     *)
(***************************************************************************)
\* the largest power of two that is not above x, for x >= 1
RECURSIVE HighBit(_)
HighBit(x) == IF x < 2 THEN 1 ELSE 2 * HighBit(x \div 2)

\* k > n * 0.7 for integers 0 <= k <= n, n >= 1, as IEEE doubles compute it.
\* The double 0.7 is 0.7 - 0.4 * 2^-53, so the exact product is
\* 7n/10 - 0.4 * n * 2^-53.  When 7n/10 is not an integer the product and
\* its rounding stay strictly between the same two integers as 7n/10.  When
\* it is an integer K = 7j (n = 10j), the doubles just below K are spaced
\* 2 * HighBit(K) * 2^-53 apart and the product is 4j * 2^-53 below K: it
\* rounds to K when 4j <= HighBit(K) (a tie goes to K, whose mantissa is
\* even) and to the double below K otherwise, and then K > n * 0.7 holds.
OverSeventyPercent(k, n) ==
    \/ 10 * k > 7 * n
    \/ /\ 10 * k = 7 * n
       /\ 4 * (n \div 10) > HighBit(7 * (n \div 10))

\* docs_files > len(files) * 0.7
_is_docs_change(files) ==
    /\ Len(files) > 0
    /\ OverSeventyPercent(Cardinality({i \in 1..Len(files) : files[i].is_docs}), Len(files))

\* test_files > len(files) * 0.7
_is_test_change(files) ==
    /\ Len(files) > 0
    /\ OverSeventyPercent(Cardinality({i \in 1..Len(files) : files[i].is_test}), Len(files))

_generate_change_summary_feature_first(diff_analysis, enhanced_files) ==
    IF diff_analysis.change_summary # "" /\ Strip(diff_analysis.change_summary) # ""
    THEN diff_analysis.change_summary
    ELSE IF is_likely_feature(diff_analysis) THEN "Add new feature"
    ELSE IF _is_docs_change(enhanced_files) THEN "Update documentation"
    ELSE IF _is_test_change(enhanced_files) THEN "Update tests"
    ELSE IF is_likely_fix(diff_analysis) THEN "Fix bug"
    ELSE IF is_likely_refactor(diff_analysis) THEN "Refactor code"
    ELSE "Update code"

_generate_change_summary(diff_analysis, enhanced_files) ==
    IF diff_analysis.change_summary # "" /\ Strip(diff_analysis.change_summary) # ""
    THEN diff_analysis.change_summary
    ELSE IF _is_docs_change(enhanced_files) THEN "Update documentation"
    ELSE IF _is_test_change(enhanced_files) THEN "Update tests"
    ELSE IF is_likely_feature(diff_analysis) THEN "Add new feature"
    ELSE IF is_likely_fix(diff_analysis) THEN "Fix bug"
    ELSE IF is_likely_refactor(diff_analysis) THEN "Refactor code"
    ELSE "Update code"

RECURSIVE RunEnd(_, _, _)
\* end of the longest run of characters of the set cs that starts at j
\* (j - 1 when the character at j is not in cs)
RunEnd(t, j, cs) ==
    IF j <= Len(t) /\ Char(t, j) \in cs THEN RunEnd(t, j + 1, cs) ELSE j - 1

\* re.match of one issue pattern at position i of t.  stem = "" is #(\d+);
\* a stem such as "close" is closes?\s+#(\d+) under re.IGNORECASE.  The
\* result is <<first, last>> of the group (\d+), or <<>> without a match.
MatchIssueAt(stem, t, i) ==
    LET after == i + Len(stem)
        k == IF stem = "" THEN i
             ELSE IF StartsWithAt(t, after, "s") \/ StartsWithAt(t, after, "S")
                  THEN after + 1 ELSE after
        w == IF stem = "" THEN i ELSE RunEnd(t, k, Whitespace) + 1
        e == RunEnd(t, w + 1, Digits)
    IN  IF /\ after - 1 <= Len(t)
           /\ ToLower(SubSeq(t, i, after - 1)) = stem
           /\ (stem = "" \/ w > k)
           /\ StartsWithAt(t, w, "#")
           /\ e > w
        THEN <<w + 1, e>>
        ELSE <<>>

RECURSIVE FindAllFrom(_, _, _)
\* re.findall: the groups of the non-overlapping matches, left to right
FindAllFrom(stem, t, i) ==
    IF i > Len(t) THEN <<>>
    ELSE LET m == MatchIssueAt(stem, t, i)
         IN  IF m = <<>> THEN FindAllFrom(stem, t, i + 1)
             ELSE <<SubSeq(t, m[1], m[2])>> \o FindAllFrom(stem, t, m[2] + 1)

\* the four patterns of _extract_related_issues
IssuePatterns == <<"", "close", "fixe", "resolve">>

\* ord(c) of the characters an issue reference is made of
Ord(c) ==
    CASE c = "#" -> 35
      [] c = "0" -> 48 [] c = "1" -> 49 [] c = "2" -> 50 [] c = "3" -> 51
      [] c = "4" -> 52 [] c = "5" -> 53 [] c = "6" -> 54 [] c = "7" -> 55
      [] c = "8" -> 56 [] c = "9" -> 57

\* a < b for two str values: the first differing character decides, and a
\* proper prefix is smaller
StrLess(a, b) ==
    \E i \in 1..(Len(b)) :
        /\ i - 1 <= Len(a)
        /\ SubSeq(a, 1, i - 1) = SubSeq(b, 1, i - 1)
        /\ \/ i = Len(a) + 1
           \/ i <= Len(a) /\ Ord(Char(a, i)) < Ord(Char(b, i))

RECURSIVE SortedList(_)
\* sorted(list(S)) for a set of str
SortedList(S) ==
    IF S = {} THEN <<>>
    ELSE LET m == CHOOSE x \in S : \A y \in S \ {x} : StrLess(x, y)
         IN  <<m>> \o SortedList(S \ {m})

\* issues.add(f"#{match}") over the matches of every pattern
IssueSet(text) ==
    UNION {{"#" \o g : g \in Range(FindAllFrom(IssuePatterns[p], text, 1))} :
              p \in 1..Len(IssuePatterns)}

_extract_related_issues_as_found(text) ==
    IF text = "" THEN <<>>
    ELSE [i \in 1..Len(FindAllFrom("", text, 1)) |-> "#" \o FindAllFrom("", text, 1)[i]]

_extract_related_issues(text) ==
    IF text = "" THEN <<>> ELSE SortedList(IssueSet(text))

ListsOfLastCall ==
    IF pc = "built"
    THEN [enhanced_files |-> context.changes.affected_files,
          added_files |-> context.changes.added_files,
          modified_files |-> context.changes.modified_files,
          deleted_files |-> context.changes.deleted_files,
          test_files |-> context.changes.test_files]
    ELSE [enhanced_files |-> <<>>, added_files |-> <<>>, modified_files |-> <<>>,
          deleted_files |-> <<>>, test_files |-> <<>>]

\* the five lists _enhance_diff_analysis starts from
EmptyLists ==
    [enhanced_files |-> <<>>, added_files |-> <<>>, modified_files |-> <<>>,
     deleted_files |-> <<>>, test_files |-> <<>>]

\* one turn of the loop over diff_analysis.files_changed
CategorizeFile(lists, file_change) ==
    LET enhanced_file == _enhance_file_change(file_change)
    IN  [enhanced_files |-> Append(lists.enhanced_files, enhanced_file),
         added_files |->
            IF enhanced_file.change_type = "added"
            THEN Append(lists.added_files, enhanced_file) ELSE lists.added_files,
         modified_files |->
            IF enhanced_file.change_type # "added" /\ enhanced_file.change_type = "modified"
            THEN Append(lists.modified_files, enhanced_file) ELSE lists.modified_files,
         deleted_files |->
            IF /\ enhanced_file.change_type # "added"
               /\ enhanced_file.change_type # "modified"
               /\ enhanced_file.change_type = "deleted"
            THEN Append(lists.deleted_files, enhanced_file) ELSE lists.deleted_files,
         test_files |->
            IF enhanced_file.is_test
            THEN Append(lists.test_files, enhanced_file) ELSE lists.test_files]

RECURSIVE CategorizeFrom(_, _, _)
CategorizeFrom(lists, files, i) ==
    IF i > Len(files) THEN lists
    ELSE CategorizeFrom(CategorizeFile(lists, files[i]), files, i + 1)

\* the dataclass EnhancedDiffAnalysis, as _enhance_diff_analysis fills it
_enhance_diff_analysis(diff_analysis) ==
    LET lists == CategorizeFrom(EmptyLists, diff_analysis.files_changed, 1)
    IN  [summary |-> _generate_change_summary(diff_analysis, lists.enhanced_files),
         body |-> None,
         rationale |-> None,
         scope |-> get_change_scope(diff_analysis),
         breaking_change |-> None,
         is_feature |-> is_likely_feature(diff_analysis),
         is_fix |-> is_likely_fix(diff_analysis),
         is_refactor |-> is_likely_refactor(diff_analysis),
         is_docs |-> _is_docs_change(lists.enhanced_files),
         is_test |-> _is_test_change(lists.enhanced_files),
         affected_files |-> lists.enhanced_files,
         added_files |-> lists.added_files,
         modified_files |-> lists.modified_files,
         deleted_files |-> lists.deleted_files,
         test_files |-> lists.test_files,
         lines_added |-> diff_analysis.total_additions,
         lines_deleted |-> diff_analysis.total_deletions,
         related_issues |-> _extract_related_issues(diff_analysis.change_summary)]

\* ContextBuilder._get_repository_info and _get_user_info read the
\* repository and the environment, which the engine never writes
Repository == [name |-> "auto-git", url |-> None, branch |-> "feature", remote |-> "origin"]
User == [name |-> "dev", email |-> None]

\* build_commit_context; every caller leaves additional_context at None,
\* and timestamp is what datetime.now() returned during the call
build_commit_context(diff_analysis, user_info, timestamp) ==
    [changes |-> _enhance_diff_analysis(diff_analysis),
     repository |-> Repository,
     user |-> user_info,
     timestamp |-> timestamp]

build_pr_context(diff_analysis, base_branch, head_branch, user_info, timestamp) ==
    [changes |-> _enhance_diff_analysis(diff_analysis),
     repository |-> Repository,
     user |-> user_info,
     base_branch |-> base_branch,
     head_branch |-> head_branch,
     timestamp |-> timestamp]

(***************************************************************************)
(* Hand-built DiffAnalysis values given to the enricher: every record that *)
(* differs from one central record in one respect, in lists of at most     *)
(* MaxFiles records.                                                       *)
(***************************************************************************)
CentralPath == "src/app.py"

RichFiles ==
    {FileChange(CentralPath, t, 3, 1, "+x", IF t \in {RENAMED, COPIED} THEN "docs/app.md" ELSE None) :
        t \in ChangeType}
    \cup {FileChange(p, MODIFIED, 3, 1, "+x", None) :
            p \in {"tests/test_app.py", "README.md", "package.json",
                   "docs/test/plan.md", "Makefile", "lib/Util.JS"}}
    \cup {FileChange(CentralPath, MODIFIED, 0, 0, "", None),
          FileChange(CentralPath, MODIFIED, 1, 4, "-y", None),
          FileChange(CentralPath, RENAMED, 1, 4, "-y", "src/old.py"),
          FileChange("tests/test_app.py", ADDED, 0, 0, "", None)}

\* the lists of at most n elements of S
RECURSIVE SeqsUpTo(_, _)
SeqsUpTo(S, n) ==
    IF n = 0 THEN {<<>>}
    ELSE LET shorter == SeqsUpTo(S, n - 1)
         IN  shorter \cup {Append(q, x) : q \in {r \in shorter : Len(r) = n - 1}, x \in S}

SpecExample == "Fixes #42 and relates to #7, closes #42"

RichSummaries == {"", "  ", "fixes #7"}

LinesAdded(files) == Sum([i \in 1..Len(files) |-> files[i].lines_added])
LinesRemoved(files) == Sum([i \in 1..Len(files) |-> files[i].lines_removed])

RichAnalyses ==
    {DiffAnalysis(files, LinesAdded(files), LinesRemoved(files), summary,
                  [branch |-> "feature"], [name |-> "auto-git"]) :
        files \in SeqsUpTo(RichFiles, MaxFiles), summary \in RichSummaries}

(***************************************************************************)
(* SpecEnrich: a DiffAnalysis is enriched into a template context, and     *)
(* then once more.  Each build reads the clock, which may have advanced.   *)
(***************************************************************************)
InitEnrich ==
    /\ pc = "analyzed"
    /\ call = NoCall
    /\ result \in {Return(d) : d \in RichAnalyses}
    /\ context = NoContext
    /\ prev_context = NoContext
    /\ now = 0
    /\ arg = None
    /\ fn = "none"
    /\ ret = None
    /\ queries = <<>>
    /\ events = <<>>

\* what datetime.now() may return: the first reading of an invocation is
\* the origin of the clock, a later one is the same instant or a later one
ClockAfter == IF pc = "analyzed" THEN {now} ELSE {now, now + 1}

IsPrContext(c) == "base_branch" \in DOMAIN c

\* the commit command builds its context from what get_staged_changes
\* returned
BuildCommitContext ==
    /\ result.kind = "return"
    /\ call.op # "get_branch_changes"
    /\ \/ pc = "analyzed" /\ pc' = "built"
       \/ pc = "built" /\ ~IsPrContext(context) /\ pc' = "rebuilt"
    /\ now' \in ClockAfter
    /\ context' = build_commit_context(result.analysis, User, now')
    /\ prev_context' = context
    /\ UNCHANGED <<call, result, arg, fn, ret, queries, events>>

\* the pr command builds its context from what get_branch_changes
\* returned, unless that lists no file
BuildPrContext ==
    /\ result.kind = "return"
    /\ call.op # "get_staged_changes"
    /\ call.op = "get_branch_changes" => Len(result.analysis.files_changed) > 0
    /\ \/ pc = "analyzed" /\ pc' = "built"
       \/ pc = "built" /\ IsPrContext(context) /\ pc' = "rebuilt"
    /\ now' \in ClockAfter
    /\ context' = build_pr_context(result.analysis, "main", "feature", User, now')
    /\ prev_context' = context
    /\ UNCHANGED <<call, result, arg, fn, ret, queries, events>>

NextEnrich == BuildCommitContext \/ BuildPrContext

SpecEnrich == InitEnrich /\ [][NextEnrich]_vars

(***************************************************************************)
(* SpecHeur: the change-set heuristics of DiffAnalysis, applied to file    *)
(* lists of up to MaxKindFiles files of every mix of three change kinds,   *)
(* under every pair of totals.                                             *)
(***************************************************************************)
HeurKinds == {ADDED, MODIFIED, RENAMED, COPIED}
HeurTotals == {0, 1, 5, 7, 10, 120}

HeurPaths == <<"src/f1.py", "src/f2.py", "src/f3.py", "src/f4.py", "src/f5.py", "src/f6.py">>

HeurFiles(kinds) ==
    [i \in 1..Len(kinds) |->
        FileChange(HeurPaths[i], kinds[i], 0, 0, "", IF kinds[i] \in {RENAMED, COPIED} THEN "src/old.py" ELSE None)]

HeurAnalyses ==
    {DiffAnalysis(HeurFiles(kinds), a, d, "", [branch |-> "feature"], [name |-> "auto-git"]) :
        kinds \in SeqsUpTo(HeurKinds, MaxKindFiles), a \in HeurTotals, d \in HeurTotals}

InitHeur ==
    /\ pc = "pure"
    /\ call = NoCall
    /\ result = NoResult
    /\ context = NoContext
    /\ prev_context = NoContext
    /\ now = 0
    /\ arg \in HeurAnalyses
    /\ fn = "none"
    /\ ret = FALSE
    /\ queries = <<>>
    /\ events = <<>>

IsLikelyFeature ==
    /\ fn = "none"
    /\ fn' = "is_likely_feature"
    /\ ret' = is_likely_feature(arg)
    /\ UNCHANGED <<pc, call, result, context, prev_context, now, arg, queries, events>>

IsLikelyFix ==
    /\ fn = "none"
    /\ fn' = "is_likely_fix"
    /\ ret' = is_likely_fix(arg)
    /\ UNCHANGED <<pc, call, result, context, prev_context, now, arg, queries, events>>

IsLikelyRefactor ==
    /\ fn = "none"
    /\ fn' = "is_likely_refactor"
    /\ ret' = is_likely_refactor(arg)
    /\ UNCHANGED <<pc, call, result, context, prev_context, now, arg, queries, events>>

NextHeur == IsLikelyFeature \/ IsLikelyFix \/ IsLikelyRefactor

SpecHeur == InitHeur /\ [][NextHeur]_vars

(***************************************************************************)
(* SpecText: _extract_related_issues applied to the texts made of at most  *)
(* MaxTokens tokens, and to the example of the documentation.              *)
(***************************************************************************)
IssueTokens == {"#7", "#42", "#", "4", " ", "Fixes ", "closes", "x"}

RECURSIVE TextsUpTo(_)
TextsUpTo(n) ==
    IF n = 0 THEN {""}
    ELSE LET shorter == TextsUpTo(n - 1)
         IN  shorter \cup {t \o k : t \in shorter, k \in IssueTokens}

IssueTexts == TextsUpTo(MaxTokens) \cup {SpecExample}

InitText ==
    /\ pc = "pure"
    /\ call = NoCall
    /\ result = NoResult
    /\ context = NoContext
    /\ prev_context = NoContext
    /\ now = 0
    /\ arg \in IssueTexts
    /\ fn = "none"
    /\ ret = <<>>
    /\ queries = <<>>
    /\ events = <<>>

ExtractRelatedIssues ==
    /\ fn = "none"
    /\ fn' = "_extract_related_issues"
    /\ ret' = _extract_related_issues(arg)
    /\ UNCHANGED <<pc, call, result, context, prev_context, now, arg, queries, events>>

NextText == ExtractRelatedIssues

SpecText == InitText /\ [][NextText]_vars

(***************************************************************************)
(* SpecShare: _is_docs_change and _is_test_change applied to lists of at   *)
(* most MaxShareFiles enriched files, of which the first few are           *)
(* documentation (or test) files and the others are code.                  *)
(***************************************************************************)
FlaggedFiles ==
    [docs |-> _enhance_file_change(FileChange("README.md", MODIFIED, 3, 1, "+x", None)),
     test |-> _enhance_file_change(FileChange("tests/test_app.py", MODIFIED, 3, 1, "+x", None)),
     code |-> _enhance_file_change(FileChange("src/app.py", MODIFIED, 3, 1, "+x", None))]

ShareLists ==
    {[i \in 1..n |-> IF i <= k THEN FlaggedFiles[flag] ELSE FlaggedFiles.code] :
        n \in 0..MaxShareFiles, k \in 0..MaxShareFiles, flag \in {"docs", "test"}}

InitShare ==
    /\ pc = "pure"
    /\ call = NoCall
    /\ result = NoResult
    /\ context = NoContext
    /\ prev_context = NoContext
    /\ now = 0
    /\ arg \in ShareLists
    /\ fn = "none"
    /\ ret = FALSE
    /\ queries = <<>>
    /\ events = <<>>

IsDocsChange ==
    /\ fn = "none"
    /\ fn' = "_is_docs_change"
    /\ ret' = _is_docs_change(arg)
    /\ UNCHANGED <<pc, call, result, context, prev_context, now, arg, queries, events>>

IsTestChange ==
    /\ fn = "none"
    /\ fn' = "_is_test_change"
    /\ ret' = _is_test_change(arg)
    /\ UNCHANGED <<pc, call, result, context, prev_context, now, arg, queries, events>>

NextShare == IsDocsChange \/ IsTestChange

SpecShare == InitShare /\ [][NextShare]_vars

(***************************************************************************)
(* Spec: invocations of the analyzer.  Each invocation builds a            *)
(* GitAnalyzer and calls get_staged_changes (the commit command) or        *)
(* get_branch_changes (the pr command) once.  The staged entries, the      *)
(* untracked files and the answers of git are every record that differs    *)
(* from a central one in one respect; a list of them holds at most one     *)
(* record from outside a few common ones.                                  *)
(***************************************************************************)
PatchSmall == "@@ -1,2 +1,3 @@\n ctx\n-old\n+new\n+more"
PatchWithHeaders == "--- a/src/a.py\n+++ b/src/a.py\n@@ -1 +1,2 @@\n-x\n+y\n+\n"

DiffItem(new_file, deleted_file, renamed_file, copied_file, a_path, b_path, diff) ==
    [new_file |-> new_file, deleted_file |-> deleted_file, renamed_file |-> renamed_file,
     copied_file |-> copied_file, a_path |-> a_path, b_path |-> b_path, diff |-> diff]

DiffItems ==
    {DiffItem(n, d, r, c, IF r \/ c THEN "src/old.py" ELSE "src/a.py", "src/a.py", PatchSmall) :
        n \in BOOLEAN, d \in BOOLEAN, r \in BOOLEAN, c \in BOOLEAN}
    \cup {DiffItem(FALSE, TRUE, FALSE, FALSE, "src/gone.py", None, PatchSmall)}
    \cup {DiffItem(FALSE, FALSE, FALSE, FALSE, "src/a.py", "src/a.py", diff) :
            diff \in {"", None, PatchWithHeaders}}

\* an entry like most: modified, renamed, without a patch
CommonDiffItems ==
    {DiffItem(FALSE, FALSE, FALSE, FALSE, "src/a.py", "src/a.py", PatchSmall),
     DiffItem(FALSE, FALSE, TRUE, FALSE, "src/old.py", "src/a.py", PatchSmall),
     DiffItem(FALSE, FALSE, FALSE, FALSE, "src/a.py", "src/a.py", "")}

\* the lists of at most n elements of S with at most one outside Common
SeqsNear(Common, S, n) ==
    {q \in SeqsUpTo(S, n) : Cardinality({i \in 1..Len(q) : q[i] \notin Common}) <= 1}

StagedLists == SeqsNear(CommonDiffItems, DiffItems, MaxEntries)

UntrackedFiles ==
    {[path |-> "notes.txt", state |-> "file", content |-> "a\nb\nc\n"],
     [path |-> "empty.py", state |-> "file", content |-> ""],
     [path |-> "todo.md", state |-> "file", content |-> "x\ny"],
     [path |-> "secret.key", state |-> "unreadable", content |-> ""],
     [path |-> "build", state |-> "directory", content |-> ""],
     [path |-> "gone.tmp", state |-> "missing", content |-> ""]}

StagedCall(include_untracked, git_error, staged, untracked, detached) ==
    [op |-> "get_staged_changes", include_untracked |-> include_untracked,
     git_error |-> git_error, staged |-> staged, untracked |-> untracked,
     detached |-> detached, branch |-> "feature"]

\* what is not read during a call keeps its default here: nothing after a
\* git error, no untracked files unless include_untracked, no branch name
\* when there are no changes
StagedCalls ==
    {StagedCall(i, "index.diff", <<>>, <<>>, FALSE) : i \in BOOLEAN}
    \cup {StagedCall(TRUE, "untracked_files", staged, <<>>, FALSE) :
            staged \in StagedLists}
    \cup {StagedCall(FALSE, "none", staged, <<>>, detached) :
            staged \in StagedLists \ {<<>>}, detached \in BOOLEAN}
    \cup {StagedCall(i, "none", <<>>, <<>>, FALSE) : i \in BOOLEAN}
    \cup UNION {{StagedCall(TRUE, "none", staged, untracked, detached) :
                    untracked \in SeqsUpTo(UntrackedFiles, MaxEntries - Len(staged)) \ {<<>>},
                    detached \in BOOLEAN} :
                staged \in StagedLists}
    \cup {StagedCall(TRUE, "none", staged, <<>>, detached) :
            staged \in StagedLists \ {<<>>}, detached \in BOOLEAN}

\* a numstat line with the answers git gives for its path
Entry(line, path, status, preview) ==
    [line |-> line, path |-> path, status |-> status, preview |-> preview]

BranchEntries ==
    {Entry("3\t1\tsrc/a.py", "src/a.py", status, PatchSmall) :
        status \in {"M\tsrc/a.py", "A\tsrc/a.py", "D\tsrc/a.py", "R100\tsrc/old.py\tsrc/a.py",
                    "C75\tsrc/old.py\tsrc/a.py", "U\tsrc/a.py", "?\tsrc/a.py", "B\tsrc/a.py",
                    "T\tsrc/a.py", "", GitFails}}
    \cup {Entry("3\t1\tsrc/a.py", "src/a.py", "M\tsrc/a.py", preview) :
            preview \in {GitFails, PatchWithHeaders}}
    \cup {Entry("-\t-\tlogo.png", "logo.png", "A\tlogo.png", ""),
          Entry("12\t0\tdocs/guide.md", "docs/guide.md", "A\tdocs/guide.md", PatchSmall),
          Entry("x\t2\tlib/b.py", "lib/b.py", "M\tlib/b.py", PatchSmall),
          Entry("3 files changed", "", "", ""),
          Entry(" ", "", "", "")}

\* a line like most: a modified text file, a binary file, a blank line
CommonEntries ==
    {Entry("3\t1\tsrc/a.py", "src/a.py", "M\tsrc/a.py", PatchSmall),
     Entry("-\t-\tlogo.png", "logo.png", "A\tlogo.png", ""),
     Entry(" ", "", "", "")}

NumstatAnswers == SeqsNear(CommonEntries, BranchEntries, MaxNumstatLines)

BranchCall(fetch_fails, detached, remote_fails, local_fails, answers, commits_fail, commit_count) ==
    [op |-> "get_branch_changes", base_branch |-> "main", branch |-> "feature",
     fetch_fails |-> fetch_fails, detached |-> detached, remote_fails |-> remote_fails,
     local_fails |-> local_fails,
     numstat |-> Join("\n", [i \in 1..Len(answers) |-> answers[i].line]),
     answers |-> answers, commits_fail |-> commits_fail, commit_count |-> commit_count]

NumstatIsBlank(answers) == \A i \in 1..Len(answers) : Strip(answers[i].line) = ""

\* as for StagedCalls, what a call never reads keeps its default
BranchCalls ==
    {BranchCall(f, TRUE, FALSE, FALSE, <<>>, FALSE, 0) : f \in BOOLEAN}
    \cup {BranchCall(f, FALSE, TRUE, TRUE, <<>>, FALSE, 0) : f \in BOOLEAN}
    \cup {BranchCall(f, FALSE, r, FALSE, answers, FALSE, 0) :
            f \in BOOLEAN, r \in BOOLEAN,
            answers \in {a \in NumstatAnswers : NumstatIsBlank(a)}}
    \cup {BranchCall(f, FALSE, r, FALSE, answers, FALSE, n) :
            f \in BOOLEAN, r \in BOOLEAN,
            answers \in {a \in NumstatAnswers : ~NumstatIsBlank(a)},
            n \in {1, 2}}
    \cup {BranchCall(f, FALSE, r, FALSE, answers, TRUE, 0) :
            f \in BOOLEAN, r \in BOOLEAN,
            answers \in {a \in NumstatAnswers : ~NumstatIsBlank(a)}}

Init ==
    /\ pc = "idle"
    /\ call = NoCall
    /\ result = NoResult
    /\ context = NoContext
    /\ prev_context = NoContext
    /\ now = 0
    /\ arg = None
    /\ fn = "none"
    /\ ret = None
    /\ queries = <<>>
    /\ events = <<>>

GetStagedChanges ==
    /\ pc = "idle"
    /\ \E c \in StagedCalls :
        /\ call' = c
        /\ result' = get_staged_changes(c)
        /\ queries' = StagedQueries(c)
    /\ pc' = IF result'.kind = "return" THEN "analyzed" ELSE "failed"
    /\ UNCHANGED <<context, prev_context, now, arg, fn, ret, events>>

GetBranchChanges ==
    /\ pc = "idle"
    /\ \E c \in BranchCalls :
        /\ call' = c
        /\ result' = get_branch_changes(c)
        /\ queries' = BranchQueries(c)
    /\ pc' = IF result'.kind = "return" THEN "analyzed" ELSE "failed"
    /\ UNCHANGED <<context, prev_context, now, arg, fn, ret, events>>

\* the process ends; the next command starts a new one
NewInvocation ==
    /\ pc \in {"analyzed", "failed"}
    /\ pc' = "idle"
    /\ call' = NoCall
    /\ result' = NoResult
    /\ queries' = <<>>
    /\ UNCHANGED <<context, prev_context, now, arg, fn, ret, events>>

Next == GetStagedChanges \/ GetBranchChanges \/ NewInvocation

Spec == Init /\ [][Next]_vars

(***************************************************************************)
(* SpecCommand: one command from its analyzer call to its template         *)
(* context: commit calls get_staged_changes and build_commit_context, pr   *)
(* calls get_branch_changes and build_pr_context.                          *)
(***************************************************************************)
NextCommand == GetStagedChanges \/ GetBranchChanges \/ BuildCommitContext \/ BuildPrContext

SpecCommand == Init /\ [][NextCommand]_vars

(***************************************************************************)
(* SpecPatch: _count_diff_lines applied to a staged entry whose patch is   *)
(* at most MaxPatchLines lines ended by a newline and then one more line,  *)
(* possibly empty, that no newline ends.                                   *)
(***************************************************************************)
PatchLines ==
    {"+", "-", "+x", "-y", "++", "--", "+++ b/f", "--- a/f", "@@ -1 +1 @@", " x", ""}

RECURSIVE PatchesUpTo(_)
PatchesUpTo(n) ==
    IF n = 0 THEN {""}
    ELSE LET shorter == PatchesUpTo(n - 1)
         IN  shorter \cup {line \o "\n" \o t : line \in PatchLines, t \in shorter}

RECURSIVE Repeat(_, _)
Repeat(s, n) == IF n = 0 THEN "" ELSE s \o Repeat(s, n - 1)

\* patches of up to MaxLongLines lines after the hunk header: every third
\* is a context line, the others are added and removed lines, and the line
\* at position wide, if any, is an added line of width characters
LongPatches ==
    {Join("\n", <<"@@ -1,9 +1,9 @@">> \o
        [i \in 1..n |->
            IF i = wide THEN "+" \o Repeat("x", width - 1)
            ELSE IF i % 3 = 0 THEN " ctx"
            ELSE (IF i % 2 = 0 THEN "-" ELSE "+") \o "l" \o ToString(i)]) :
        n \in 1..MaxLongLines, wide \in 0..MaxLongLines, width \in {PreviewWidth, PreviewWidth + 1}}

PatchTexts ==
    {t \o line : t \in PatchesUpTo(MaxPatchLines), line \in PatchLines} \cup LongPatches

InitPatch ==
    /\ pc = "pure"
    /\ call = NoCall
    /\ result = NoResult
    /\ context = NoContext
    /\ prev_context = NoContext
    /\ now = 0
    /\ arg \in {DiffItem(FALSE, FALSE, FALSE, FALSE, "f", "f", diff) : diff \in PatchTexts}
    /\ fn = "none"
    /\ ret = <<>>
    /\ queries = <<>>
    /\ events = <<>>

CountDiffLines ==
    /\ fn = "none"
    /\ fn' = "_count_diff_lines"
    /\ ret' = _count_diff_lines(arg)
    /\ UNCHANGED <<pc, call, result, context, prev_context, now, arg, queries, events>>

\* staged mode: the preview of the entry's patch
DiffItemPreview ==
    /\ fn = "none"
    /\ fn' = "_get_diff_item_preview"
    /\ ret' = _get_diff_item_preview(arg)
    /\ UNCHANGED <<pc, call, result, context, prev_context, now, arg, queries, events>>

\* branch mode: the preview of the patch git answers for the path
DiffPreview ==
    /\ fn = "none"
    /\ fn' = "_get_diff_preview"
    /\ ret' = _get_diff_preview(
                  [answers |-> <<[path |-> arg.b_path, status |-> "M", preview |-> arg.diff]>>],
                  "origin/main", arg.b_path)
    /\ UNCHANGED <<pc, call, result, context, prev_context, now, arg, queries, events>>

NextPatch == CountDiffLines \/ DiffItemPreview \/ DiffPreview

SpecPatch == InitPatch /\ [][NextPatch]_vars

(***************************************************************************)
(* providers/ollama.py: OllamaProvider.generate.  The call c holds the     *)
(* provider's max_retries and retry_delay, what GET /api/tags answers, and *)
(* per attempt what POST /api/generate answers: a response text, a JSON    *)
(* body without "response", or the exception that requests raises.         *)
(***************************************************************************)
Event(kind, what) == [kind |-> kind, what |-> what]

\* health_check: status 200 of GET /api/tags; any exception gives False
health_check(c) == c.tags = "200"

\* the error an attempt leaves in last_error; requests' ConnectTimeout is
\* a Timeout and a ConnectionError, and the Timeout clause comes first
AttemptError(answer) ==
    CASE answer \in {"Timeout", "ConnectTimeout"} -> "GenerationTimeoutError"
      [] answer = "ConnectionError" -> "ProviderUnavailableError"
      [] OTHER -> "ProviderError"

\* a GenerationResponse
GenerationResponse(content) == [kind |-> "return", content |-> content]

RECURSIVE RetryLoop_sleeping_after_last(_, _, _, _)
\* the loop that sleeps after every failed attempt
RetryLoop_sleeping_after_last(c, attempt, last_error, done) ==
    IF attempt >= c.max_retries
    THEN [result |-> Raise(IF last_error = None THEN "ProviderError" ELSE last_error, None),
          events |-> done]
    ELSE LET answer == c.answers[attempt + 1]
             posted == Append(done, Event("POST /api/generate", attempt + 1))
         IN  IF answer.kind = "json" /\ answer.response # None /\ Strip(answer.response) # ""
             THEN [result |-> GenerationResponse(Strip(answer.response)), events |-> posted]
             ELSE RetryLoop_sleeping_after_last(c, attempt + 1, AttemptError(answer.kind),
                     Append(posted, Event("sleep", c.retry_delay * (attempt + 1))))

RECURSIVE RetryLoop(_, _, _, _)
\* for attempt in range(self.max_retries), from the given attempt on
RetryLoop(c, attempt, last_error, done) ==
    IF attempt >= c.max_retries
    THEN [result |-> Raise(IF last_error = None THEN "ProviderError" ELSE last_error, None),
          events |-> done]
    ELSE LET answer == c.answers[attempt + 1]
             posted == Append(done, Event("POST /api/generate", attempt + 1))
         IN  IF answer.kind = "json" /\ answer.response # None /\ Strip(answer.response) # ""
             THEN [result |-> GenerationResponse(Strip(answer.response)), events |-> posted]
             ELSE RetryLoop(c, attempt + 1, AttemptError(answer.kind),
                     IF attempt < c.max_retries - 1
                     THEN Append(posted, Event("sleep", c.retry_delay * (attempt + 1)))
                     ELSE posted)

generate(c) ==
    LET checked == <<Event("GET /api/tags", 0)>>
    IN  IF ~health_check(c)
        THEN [result |-> Raise("ProviderUnavailableError", None), events |-> checked]
        ELSE RetryLoop(c, 0, None, checked)

(***************************************************************************)
(* providers/factory.py: ProviderFactory.create_with_fallback.  A          *)
(* candidate is a provider name with its configuration and with what the   *)
(* provider, once constructed, answers to health_check.                    *)
(***************************************************************************)
_providers == {"ollama", "openai", "anthropic", "lmstudio"}

\* create_provider: the provider, or the error raised
create_provider(candidate) ==
    IF candidate.name \notin _providers THEN Raise("ProviderError", None)
    ELSE IF ~candidate.config.valid THEN Raise("ProviderConfigError", "Exception")
    ELSE [kind |-> "return", provider |-> [name |-> candidate.name, config |-> candidate.config]]

\* the try block that returns whatever provider it could create
TryCandidate_without_health_check(candidate, position) ==
    LET created == create_provider(candidate)
        tried == <<Event("create_provider", position)>>
    IN  IF created.kind = "raise" THEN [ok |-> FALSE, provider |-> None, events |-> tried]
        ELSE [ok |-> TRUE, provider |-> created.provider, events |-> tried]

\* one try block: create the provider and check its health (an exception
\* of health_check ends the block like one of create_provider); ok tells
\* whether the block returned the provider
TryCandidate(candidate, position) ==
    LET created == create_provider(candidate)
        tried == <<Event("create_provider", position)>>
    IN  IF created.kind = "raise" THEN [ok |-> FALSE, provider |-> None, events |-> tried]
        ELSE [ok |-> candidate.health = "healthy",
              provider |-> created.provider,
              events |-> Append(tried, Event("health_check", position))]

RECURSIVE FallbackLoop(_, _, _)
\* for fallback_name, fallback_config in fallback_providers, from the i-th on
FallbackLoop(fallback_providers, i, done) ==
    IF i > Len(fallback_providers)
    THEN [result |-> Raise("ProviderError", None), events |-> done]
    ELSE LET try == TryCandidate(fallback_providers[i], i + 1)
         IN  IF try.ok
             THEN [result |-> [kind |-> "return", provider |-> try.provider],
                   events |-> done \o try.events]
             ELSE FallbackLoop(fallback_providers, i + 1, done \o try.events)

\* fallback_providers = None, the default, is the empty list here: the test
\* "if fallback_providers:" takes both the same way
create_with_fallback(c) ==
    LET try == TryCandidate(c.primary, 1)
    IN  IF try.ok THEN [result |-> [kind |-> "return", provider |-> try.provider],
                        events |-> try.events]
        ELSE IF Len(c.fallback_providers) = 0
        THEN [result |-> Raise("ProviderError", None), events |-> try.events]
        ELSE FallbackLoop(c.fallback_providers, 1, try.events)

(***************************************************************************)
(* SpecProvider: one call of OllamaProvider.generate, with max_retries up  *)
(* to MaxRetries, or one call of create_with_fallback, with up to          *)
(* MaxFallbacks fallbacks.                                                 *)
(***************************************************************************)
Answers ==
    {[kind |-> "json", response |-> r] : r \in {"feat: add x\n", "  ", "", None}}
    \cup {[kind |-> k, response |-> None] :
            k \in {"Timeout", "ConnectTimeout", "ConnectionError", "HTTPError", "ValueError"}}

GenerateCalls ==
    {[op |-> "generate", tags |-> tags, max_retries |-> n, retry_delay |-> delay,
      answers |-> answers] :
        tags \in {"200"}, n \in 0..MaxRetries, delay \in {1, 2},
        answers \in [1..MaxRetries -> Answers]}
    \cup {[op |-> "generate", tags |-> tags, max_retries |-> n, retry_delay |-> 1,
           answers |-> [i \in 1..MaxRetries |-> [kind |-> "json", response |-> "feat: add x\n"]]] :
            tags \in {"503", "ConnectionError"}, n \in 0..MaxRetries}

Candidates ==
    {[name |-> "ollama", config |-> [model |-> m, valid |-> TRUE], health |-> h] :
        m \in {"llama3.1"}, h \in {"healthy", "unhealthy", "raises"}}
    \cup {[name |-> "openai", config |-> [model |-> "gpt-4", valid |-> v], health |-> "healthy"] :
            v \in BOOLEAN}
    \cup {[name |-> "gemini", config |-> [model |-> "pro", valid |-> TRUE], health |-> "healthy"]}

FallbackCalls ==
    {[op |-> "create_with_fallback", primary |-> primary, fallback_providers |-> fallbacks] :
        primary \in Candidates,
        fallbacks \in SeqsUpTo(Candidates, MaxFallbacks)}

InitProvider ==
    /\ pc = "idle"
    /\ call = NoCall
    /\ result = NoResult
    /\ context = NoContext
    /\ prev_context = NoContext
    /\ now = 0
    /\ arg = None
    /\ fn = "none"
    /\ ret = None
    /\ queries = <<>>
    /\ events = <<>>

Generate ==
    /\ pc = "idle"
    /\ \E c \in GenerateCalls :
        /\ call' = c
        /\ result' = generate(c).result
        /\ events' = generate(c).events
    /\ pc' = IF result'.kind = "return" THEN "generated" ELSE "failed"
    /\ UNCHANGED <<context, prev_context, now, arg, fn, ret, queries>>

CreateWithFallback ==
    /\ pc = "idle"
    /\ \E c \in FallbackCalls :
        /\ call' = c
        /\ result' = create_with_fallback(c).result
        /\ events' = create_with_fallback(c).events
    /\ pc' = IF result'.kind = "return" THEN "created" ELSE "failed"
    /\ UNCHANGED <<context, prev_context, now, arg, fn, ret, queries>>

NextProvider == Generate \/ CreateWithFallback

SpecProvider == InitProvider /\ [][NextProvider]_vars

(***************************************************************************)
(* Properties of the analyzer (Spec).                                      *)
(***************************************************************************)
Returned == pc = "analyzed" /\ result.kind = "return"

\* C1: every DiffAnalysis returned by get_staged_changes or
\* get_branch_changes has total_additions equal to the sum of lines_added
\* and total_deletions equal to the sum of lines_removed over files_changed.
C1_TotalsAreSums ==
    Returned =>
        /\ result.analysis.total_additions = LinesAdded(result.analysis.files_changed)
        /\ result.analysis.total_deletions = LinesRemoved(result.analysis.files_changed)

\* a staged entry with counted lines, then a readable untracked file
C1_Witness ==
    /\ Returned
    /\ call.op = "get_staged_changes"
    /\ Len(call.staged) = 1
    /\ Len(call.untracked) = 1
    /\ Len(result.analysis.files_changed) = 2
    /\ result.analysis.files_changed[1].lines_added = 2
    /\ result.analysis.files_changed[2].lines_added = 3
    /\ result.analysis.total_additions = 5
    /\ result.analysis.total_deletions = 1

\* get_staged_changes found nothing staged and, if it looked, nothing
\* untracked
NothingToAnalyze ==
    /\ call.op = "get_staged_changes"
    /\ call.git_error = "none"
    /\ Len(call.staged) = 0
    /\ (~call.include_untracked \/ Len(call.untracked) = 0)

\* C2: with nothing staged and no untracked files (or none asked for),
\* get_staged_changes raises NoStagedChangesError, which is not the plain
\* GitAnalysisError that wraps unexpected failures.
C2_NothingStagedRaisesNoStagedChangesError ==
    NothingToAnalyze => result.kind = "raise" /\ result.error = "NoStagedChangesError"

\* C4: every FileChange of a returned DiffAnalysis has old_path set exactly
\* when its change_type is RENAMED or COPIED.
C4_OldPathIffRenamedOrCopied ==
    Returned =>
        \A i \in 1..Len(result.analysis.files_changed) :
            LET fc == result.analysis.files_changed[i]
            IN  fc.old_path # None <=> fc.change_type \in {RENAMED, COPIED}

\* get_branch_changes got a numstat from one of the two base references,
\* and it was empty
EmptyNumstat ==
    /\ call.op = "get_branch_changes"
    /\ ~call.detached
    /\ ~(call.remote_fails /\ call.local_fails)
    /\ Strip(call.numstat) = ""

\* C5: when the numstat between the resolved base and HEAD is empty,
\* get_branch_changes returns a DiffAnalysis with no files, totals 0 and
\* the summary "No changes found".
C5_EmptyDiffIsAResult ==
    EmptyNumstat =>
        /\ result.kind = "return"
        /\ result.analysis.files_changed = <<>>
        /\ result.analysis.total_additions = 0
        /\ result.analysis.total_deletions = 0
        /\ result.analysis.change_summary = "No changes found"

C5_Witness ==
    /\ EmptyNumstat
    /\ call.remote_fails
    /\ call.answers = <<>>
    /\ pc = "analyzed"
    /\ result.analysis.change_summary = "No changes found"

\* the kinds a change summary counts, in the order it names them
CountedKinds ==
    <<[kind |-> ADDED, word |-> "added"], [kind |-> MODIFIED, word |-> "modified"],
      [kind |-> DELETED, word |-> "deleted"], [kind |-> RENAMED, word |-> "renamed"]>>

\* how many of the files have the kind
FilesOfKind(files, kind) == Cardinality({i \in 1..Len(files) : files[i].change_type = kind})

\* "<n> added, <n> modified, <n> deleted, <n> renamed" without the kinds
\* that no file has, from the k-th counted kind on
RECURSIVE RenderedCounts(_, _)
RenderedCounts(files, k) ==
    IF k > Len(CountedKinds) THEN ""
    ELSE LET n == FilesOfKind(files, CountedKinds[k].kind)
             rest == RenderedCounts(files, k + 1)
         IN  IF n = 0 THEN rest
             ELSE ToString(n) \o " " \o CountedKinds[k].word
                  \o (IF rest = "" THEN "" ELSE ", " \o rest)

\* C15: the change summary of a returned DiffAnalysis with files, in staged
\* and in branch mode, is "1 file " followed by the counts per kind, or
\* "<n> files (" followed by the counts per kind and ")", the counts being
\* "<n> added, <n> modified, <n> deleted, <n> renamed" without the zeros.
C15_SummaryIsPrefixAndCounts ==
    Returned /\ Len(result.analysis.files_changed) >= 1 =>
        LET files == result.analysis.files_changed
        IN  result.analysis.change_summary =
                IF Len(files) = 1 THEN "1 file " \o RenderedCounts(files, 1)
                ELSE ToString(Len(files)) \o " files (" \o RenderedCounts(files, 1) \o ")"

C15_Witness ==
    /\ Returned
    /\ call.op = "get_branch_changes"
    /\ Len(result.analysis.files_changed) = 2
    /\ result.analysis.change_summary = "2 files (1 added, 1 modified)"

\* the operation called last has ended
Ended == pc \in {"analyzed", "failed"}

\* the three failures a call is documented to survive: of the fetch, of the
\* numstat against origin/<base>, of a name-status query for one file
DocumentedFallback(q) ==
    \/ q.cmd = "fetch"
    \/ q.cmd = "diff --numstat" /\ q.ref = "origin/" \o call.base_branch
    \/ q.cmd = "diff --name-status"

\* C16: a call in which a git query failed that is not one of the three
\* documented fallbacks ends with GitOperationError, and a call in which
\* something else failed unexpectedly (the branch name of a detached HEAD
\* cannot be read) ends with GitAnalysisError.
C16_FailedQueryEndsTheCall ==
    Ended =>
        /\ (\E i \in 1..Len(queries) : queries[i].failed /\ ~DocumentedFallback(queries[i]))
                => result.kind = "raise" /\ result.error = "GitOperationError"
        /\ call.detached => result.kind = "raise" /\ result.error = "GitAnalysisError"

\* the positions of the numstat queries in the log of the call
NumstatAt == {i \in 1..Len(queries) : queries[i].cmd = "diff --numstat"}

\* the numstat query against origin/<base> was made and answered
RemoteNumstatSucceeded ==
    \E i \in NumstatAt : queries[i].ref = "origin/" \o call.base_branch /\ ~queries[i].failed

\* C17: within one get_branch_changes call the numstat that produced the
\* file list, every per-file name-status query, every per-file preview diff
\* and the commit count use one reference: origin/<base> if the remote
\* numstat succeeded, otherwise <base>.
C17_OneResolvedBase ==
    (Ended /\ call.op = "get_branch_changes") =>
        LET resolved == IF RemoteNumstatSucceeded THEN "origin/" \o call.base_branch
                        ELSE call.base_branch
        IN  \A i \in 1..Len(queries) :
                \/ queries[i].cmd = "fetch"
                \/ queries[i].cmd = "diff --numstat" /\ queries[i].failed
                \/ queries[i].ref = resolved

\* a call that fell back to the local base and went on to the per-file
\* queries and the commit count
C17_Witness ==
    /\ pc = "analyzed"
    /\ call.op = "get_branch_changes"
    /\ ~RemoteNumstatSucceeded
    /\ \E i, j, k \in 1..Len(queries) :
            /\ queries[i].cmd = "diff --name-status" /\ queries[i].ref = call.base_branch
            /\ queries[j].cmd = "diff" /\ queries[j].ref = call.base_branch
            /\ queries[k].cmd = "rev-list" /\ queries[k].ref = call.base_branch

\* C18: get_branch_changes asks for the numstat against origin/<base>
\* first and against <base> only directly after that query failed; a failed
\* fetch of origin/<base> does not end the call or change this order; if
\* the query against <base> fails too the call fails with GitOperationError.
C18_RemoteFirstThenLocal ==
    (Ended /\ call.op = "get_branch_changes") =>
        LET remote == "origin/" \o call.base_branch
        IN  /\ queries[1].cmd = "fetch"
            /\ ~call.detached =>
                    /\ Len(queries) >= 2
                    /\ queries[2] = Query("diff --numstat", remote, "", call.remote_fails)
            /\ \A i \in NumstatAt :
                    /\ queries[i].ref \in {remote, call.base_branch}
                    /\ queries[i].ref = remote => i = 2
                    /\ queries[i].ref = call.base_branch => i = 3 /\ queries[2].failed
            /\ (queries[1].failed /\ \A i \in 2..Len(queries) : ~queries[i].failed)
                    => (result.kind = "return" <=> ~call.detached)
            /\ (\A i \in NumstatAt : queries[i].failed) /\ NumstatAt # {}
                    => /\ result.kind = "raise" /\ result.error = "GitOperationError"
                       /\ Cardinality(NumstatAt) = 2 /\ Len(queries) = 3

\* a call whose fetch and remote numstat failed and which returned the
\* changes against the local base
C18_Witness ==
    /\ pc = "analyzed"
    /\ call.op = "get_branch_changes"
    /\ result.kind = "return"
    /\ Len(result.analysis.files_changed) > 0
    /\ queries[1].failed
    /\ queries[2].failed
    /\ queries[3] = Query("diff --numstat", call.base_branch, "", FALSE)

\* C19: every DiffAnalysis returned by get_branch_changes, the one for an
\* empty diff included, has a commit_context holding the current branch
\* name, the base branch name and the count of commits in base..HEAD.
C19_CommitContextIsComplete ==
    (pc = "analyzed" /\ call.op = "get_branch_changes" /\ result.kind = "return") =>
        LET commit_context == result.analysis.commit_context
        IN  /\ {"current_branch", "base_branch", "commit_count"} \subseteq DOMAIN commit_context
            /\ commit_context.current_branch = call.branch
            /\ commit_context.base_branch = call.base_branch
            /\ commit_context.commit_count = call.commit_count

\* the number of lines of a file's text: its newlines, and one more for a
\* last line that no newline ends
LineCount(content) ==
    Cardinality({i \in 1..Len(content) : SubSeq(content, i, i) = "\n"})
        + (IF content # "" /\ SubSeq(content, Len(content), Len(content)) # "\n" THEN 1 ELSE 0)

\* a staged call that looked at untracked files and in which no git query
\* and no branch lookup failed
UntrackedIncluded ==
    /\ Ended
    /\ call.op = "get_staged_changes"
    /\ call.include_untracked
    /\ call.git_error = "none"
    /\ ~call.detached
    /\ Len(call.staged) + Len(call.untracked) > 0

\* C22: in staged mode with untracked files included, an untracked file
\* that cannot be read is skipped and the call still returns: the result
\* lists the staged entries and then the readable untracked files, each
\* group in its order, the untracked ones as Added with lines_added = the
\* file's line count and lines_removed = 0, and the totals count nothing
\* for the skipped file.
C22_UnreadableUntrackedIsSkipped ==
    UntrackedIncluded =>
        /\ result.kind = "return"
        /\ LET files == result.analysis.files_changed
               readable == {i \in 1..Len(call.untracked) : call.untracked[i].state = "file"}
               place(i) == Len(call.staged) + Cardinality({j \in readable : j <= i})
           IN  /\ Len(files) = Len(call.staged) + Cardinality(readable)
               /\ \A i \in 1..Len(call.staged) : files[i] = _parse_diff_item(call.staged[i])
               /\ \A i \in readable :
                      /\ files[place(i)].path = call.untracked[i].path
                      /\ files[place(i)].change_type = ADDED
                      /\ files[place(i)].lines_added = LineCount(call.untracked[i].content)
                      /\ files[place(i)].lines_removed = 0
               /\ result.analysis.total_additions =
                      Sum([i \in 1..Len(call.staged) |-> files[i].lines_added])
                      + Sum([i \in 1..Len(call.untracked) |->
                                IF i \in readable THEN LineCount(call.untracked[i].content) ELSE 0])
               /\ result.analysis.total_deletions =
                      Sum([i \in 1..Len(call.staged) |-> files[i].lines_removed])

\* an unreadable untracked file before a readable one: the result holds
\* the readable one only
C22_Witness ==
    /\ UntrackedIncluded
    /\ Len(call.untracked) = 2
    /\ call.untracked[1].state = "unreadable"
    /\ call.untracked[2].state = "file"
    /\ result.kind = "return"
    /\ Len(result.analysis.files_changed) = 1
    /\ result.analysis.files_changed[1].path = call.untracked[2].path
    /\ result.analysis.total_additions > 0

\* a branch call in which nothing failed but, possibly, the fetch, the
\* remote numstat and queries for single files
OnlyFileQueriesFailed ==
    /\ Ended
    /\ call.op = "get_branch_changes"
    /\ ~call.detached
    /\ ~(call.remote_fails /\ call.local_fails)
    /\ ~call.commits_fail

\* the name-status answer for the path of a listed file
StatusOf(file) == AnswersFor(call, file.path).status

\* the answer starts with one of the eight codes of ChangeType
StartsWithKnownCode(status) ==
    /\ status # GitFails
    /\ status # ""
    /\ SubSeq(status, 1, 1) \in {"A", "M", "D", "R", "C", "U", "?", "B"}

\* C23: in branch mode the change_type of each file is the ChangeType whose
\* code is the first character of the name-status answer for its path; if
\* the query fails, answers nothing or answers with another character, the
\* change_type is MODIFIED, and the analysis still succeeds.
C23_ChangeTypeFromNameStatus ==
    OnlyFileQueriesFailed =>
        /\ result.kind = "return"
        /\ \A i \in 1..Len(result.analysis.files_changed) :
              LET file == result.analysis.files_changed[i]
              IN  file.change_type =
                      IF StartsWithKnownCode(StatusOf(file))
                      THEN SubSeq(StatusOf(file), 1, 1)
                      ELSE "M"

\* a returned analysis with a file whose name-status query failed
C23_Witness ==
    /\ OnlyFileQueriesFailed
    /\ result.kind = "return"
    /\ \E i \in 1..Len(result.analysis.files_changed) :
          /\ StatusOf(result.analysis.files_changed[i]) = GitFails
          /\ result.analysis.files_changed[i].change_type = MODIFIED

\* C28: whenever get_staged_changes returns a DiffAnalysis, whatever the
\* staged entries, include_untracked and the readable, unreadable and
\* missing untracked files, files_changed is not empty.
C28_StagedResultHasFiles ==
    (pc = "analyzed" /\ call.op = "get_staged_changes" /\ result.kind = "return") =>
        Len(result.analysis.files_changed) > 0

(***************************************************************************)
(* Properties of the enrichment (SpecEnrich).                              *)
(***************************************************************************)
Built == pc \in {"built", "rebuilt"}

\* e occurs in the list
InList(e, list) == \E j \in 1..Len(list) : list[j] = e

\* how many of added_files, modified_files, deleted_files hold e
KindListsHolding(e, changes) ==
    Cardinality({l \in {"added_files", "modified_files", "deleted_files"} : InList(e, changes[l])})

\* C3 as stated: every entry of affected_files, whatever its change kind, is
\* in exactly one of added_files, modified_files, deleted_files, the one of
\* its kind.
C3_EveryFileInOneKindList ==
    Built =>
        \A i \in 1..Len(context.changes.affected_files) :
            LET e == context.changes.affected_files[i]
                kind == result.analysis.files_changed[i].change_type
            IN  /\ KindListsHolding(e, context.changes) = 1
                /\ kind = ADDED => InList(e, context.changes.added_files)
                /\ kind = MODIFIED => InList(e, context.changes.modified_files)
                /\ kind = DELETED => InList(e, context.changes.deleted_files)

\* C3 amended: an entry of affected_files is in added_files exactly when its
\* kind is Added, in modified_files exactly when Modified, in deleted_files
\* exactly when Deleted; an entry of any other kind (Renamed, Copied,
\* Unmerged, Broken, Unknown) is in none of the three.
C3_KindListsHoldTheirKindOnly ==
    Built =>
        \A i \in 1..Len(context.changes.affected_files) :
            LET e == context.changes.affected_files[i]
                kind == result.analysis.files_changed[i].change_type
            IN  /\ InList(e, context.changes.added_files) <=> kind = ADDED
                /\ InList(e, context.changes.modified_files) <=> kind = MODIFIED
                /\ InList(e, context.changes.deleted_files) <=> kind = DELETED
                /\ kind \notin {ADDED, MODIFIED, DELETED} => KindListsHolding(e, context.changes) = 0

C3_Witness ==
    /\ Built
    /\ Len(result.analysis.files_changed) = 2
    /\ result.analysis.files_changed[1].change_type = RENAMED
    /\ result.analysis.files_changed[2].change_type = ADDED
    /\ Len(context.changes.added_files) = 1

\* C6: two files of one analysis that have the same path get the same
\* is_test, is_config, is_docs and language, whatever their change kinds,
\* line counts and previews.
C6_ClassificationByPathOnly ==
    Built =>
        \A i, j \in 1..Len(context.changes.affected_files) :
            LET e == context.changes.affected_files[i]
                f == context.changes.affected_files[j]
            IN  e.path = f.path =>
                    /\ e.is_test = f.is_test
                    /\ e.is_config = f.is_config
                    /\ e.is_docs = f.is_docs
                    /\ e.language = f.language

C6_Witness ==
    /\ Built
    /\ Len(result.analysis.files_changed) = 2
    /\ LET a == result.analysis.files_changed[1]
           b == result.analysis.files_changed[2]
       IN  /\ a.path = b.path
           /\ a.change_type # b.change_type
           /\ a.lines_added # b.lines_added
           /\ a.content_preview # b.content_preview
           /\ context.changes.affected_files[1].is_test
           /\ context.changes.affected_files[2].is_test

ParentOf(path) == BeforeLast(path, "/")

\* all the files of the list are in one directory below the root
AllShareOneParent(files) ==
    /\ Len(files) >= 1
    /\ ParentOf(files[1].path) # ""
    /\ \A i \in 1..Len(files) : ParentOf(files[i].path) = ParentOf(files[1].path)

\* C13: get_change_scope returns by its first rule exactly when all the
\* changed files, those at the repository root included, have one and the
\* same parent directory, and then the scope is that directory.
C13_FirstRuleIffAllShareParent ==
    Built =>
        LET files == result.analysis.files_changed
        IN  /\ ScopeRule(result.analysis) = 1 <=> AllShareOneParent(files)
            /\ AllShareOneParent(files) => context.changes.scope = ParentOf(files[1].path)

\* the label of the first heuristic that applies to the enriched changes
FirstLabel(changes) ==
    CASE changes.is_docs -> "Update documentation"
      [] ~changes.is_docs /\ changes.is_test -> "Update tests"
      [] ~changes.is_docs /\ ~changes.is_test /\ changes.is_feature -> "Add new feature"
      [] ~changes.is_docs /\ ~changes.is_test /\ ~changes.is_feature /\ changes.is_fix -> "Fix bug"
      [] OTHER -> IF changes.is_refactor THEN "Refactor code" ELSE "Update code"

\* the text has a character that is not white space
NonBlank(text) == \E i \in 1..Len(text) : Char(text, i) \notin Whitespace

\* C14 as stated: the enriched summary is the raw change_summary when that
\* is not the empty string, and otherwise the label of the first heuristic
\* that applies, in the order docs, test, feature, fix, refactor, else
\* "Update code".
C14_SummaryIsRawUnlessEmpty ==
    Built =>
        LET raw == result.analysis.change_summary
        IN  context.changes.summary = IF raw # "" THEN raw ELSE FirstLabel(context.changes)

\* C14 amended: the enriched summary is the raw change_summary when that
\* has a character other than white space, and otherwise the first label.
C14_SummaryIsRawUnlessBlank ==
    Built =>
        LET raw == result.analysis.change_summary
        IN  context.changes.summary = IF NonBlank(raw) THEN raw ELSE FirstLabel(context.changes)

\* no raw summary, and both the test label and the feature label apply
C14_Witness ==
    /\ Built
    /\ result.analysis.change_summary = ""
    /\ context.changes.is_test
    /\ context.changes.is_feature
    /\ context.changes.summary = "Update tests"

\* the extension of a path in lower case; "" for a path without a dot
ExtensionOf(path) == IF Contains(path, ".") THEN ToLower(AfterLast(path, ".")) ELSE ""

\* all the files of the list have one and the same extension
AllShareOneExtension(files) ==
    /\ Len(files) >= 1
    /\ Contains(files[1].path, ".")
    /\ \A i \in 1..Len(files) : ExtensionOf(files[i].path) = ExtensionOf(files[1].path)

\* the positions in src, lib, tests, docs, config of the names that some
\* changed file's directory contains
RootNamesIn(files) ==
    LET names == <<"src", "lib", "tests", "docs", "config">>
    IN  {names[k] : k \in {n \in 1..5 :
            /\ \E i \in 1..Len(files) : Contains(ParentOf(files[i].path), names[n])
            /\ \A m \in 1..(n - 1) :
                   ~\E i \in 1..Len(files) : Contains(ParentOf(files[i].path), names[m])}}

\* C25: when the changed files do not all share one parent directory, the
\* scope is the common extension if all files share one extension and it is
\* one of py, js, ts, java, cpp, c; else the first of src, lib, tests, docs,
\* config that a changed file's directory contains; else "" if exactly one
\* file changed and "core" otherwise, also for no file at all.
C25_ScopeFallbacks ==
    Built =>
        LET files == result.analysis.files_changed
        IN  ~AllShareOneParent(files) =>
                context.changes.scope =
                    IF /\ AllShareOneExtension(files)
                       /\ ExtensionOf(files[1].path) \in {"py", "js", "ts", "java", "cpp", "c"}
                    THEN ExtensionOf(files[1].path)
                    ELSE IF RootNamesIn(files) # {} THEN CHOOSE name \in RootNamesIn(files) : TRUE
                    ELSE IF Len(files) = 1 THEN "" ELSE "core"

\* C24: the description of a file is chosen by the first applicable rule
\* in the order test file, config file, docs file, newly added, "Major
\* additions" when lines_added >= 3 * lines_removed, "Major deletions" when
\* lines_removed >= 3 * lines_added, otherwise "Updated".
C24_DescriptionByFirstRule ==
    Built =>
        \A i \in 1..Len(context.changes.affected_files) :
            LET e == context.changes.affected_files[i]
            IN  e.description =
                    IF e.is_test THEN "Test file"
                    ELSE IF e.is_config THEN "Configuration file"
                    ELSE IF e.is_docs THEN "Documentation"
                    ELSE IF e.change_type = "added" THEN "New file"
                    ELSE IF e.lines_added >= 3 * e.lines_deleted THEN "Major additions"
                    ELSE IF e.lines_deleted >= 3 * e.lines_added THEN "Major deletions"
                    ELSE "Updated"

(***************************************************************************)
(* Properties of a command (SpecCommand).                                  *)
(***************************************************************************)
GeneratedLabels ==
    {"Update documentation", "Update tests", "Add new feature", "Fix bug",
     "Refactor code", "Update code"}

\* C27: every DiffAnalysis the analyzer returns, in either mode, has a
\* change_summary that is not blank, so the summary of the context built
\* from it is that change_summary and none of the generated labels.
C27_AnalyzerSummaryIsKept ==
    (call.op # "none" /\ result.kind = "return") =>
        /\ NonBlank(result.analysis.change_summary)
        /\ Built =>
              /\ context.changes.summary = result.analysis.change_summary
              /\ context.changes.summary \notin GeneratedLabels

\* a commit context built from a staged analysis of documentation only:
\* the summary is the analyzer's, not "Update documentation"
C27_Witness ==
    /\ pc = "built"
    /\ call.op = "get_staged_changes"
    /\ Len(result.analysis.files_changed) > 0
    /\ context.changes.is_docs
    /\ context.changes.summary = result.analysis.change_summary

(***************************************************************************)
(* Properties of the heuristics (SpecHeur).                                *)
(***************************************************************************)
AddedCount(d) == Cardinality({i \in 1..Len(d.files_changed) : d.files_changed[i].change_type = ADDED})

FeatureExample(d) ==
    /\ Len(d.files_changed) = 2
    /\ AddedCount(d) = 1
    /\ d.total_additions = 120
    /\ d.total_deletions = 10

\* C9: is_likely_feature is true exactly when total_additions is more than
\* twice total_deletions, there are at least two files and at least one of
\* them is Added; for 2 files, one Added, and totals +120/-10 it is true and
\* is_likely_fix is false.
C9_FeatureExactly ==
    /\ fn = "is_likely_feature" =>
          (ret <=> /\ 2 * arg.total_deletions < arg.total_additions
                   /\ Len(arg.files_changed) >= 2
                   /\ AddedCount(arg) >= 1)
    /\ fn = "is_likely_feature" /\ FeatureExample(arg) => ret = TRUE
    /\ fn = "is_likely_fix" /\ FeatureExample(arg) => ret = FALSE

C9_Witness == fn = "is_likely_feature" /\ FeatureExample(arg) /\ ret = TRUE

FixExample(d) ==
    /\ Len(d.files_changed) = 2
    /\ \A i \in 1..2 : d.files_changed[i].change_type = MODIFIED
    /\ d.total_additions = 5
    /\ d.total_deletions = 5

\* C10: is_likely_fix is true exactly when there are at most 3 files, none
\* of them Added, and total_additions and total_deletions are both above 0;
\* for 2 Modified files and totals +5/-5 it is true.
C10_FixExactly ==
    /\ fn = "is_likely_fix" =>
          (ret <=> /\ Len(arg.files_changed) < 4
                   /\ AddedCount(arg) = 0
                   /\ arg.total_additions >= 1
                   /\ arg.total_deletions >= 1)
    /\ fn = "is_likely_fix" /\ FixExample(arg) => ret = TRUE

C10_Witness == fn = "is_likely_fix" /\ FixExample(arg) /\ ret = TRUE

\* the DiffAnalysis has files, all of them Renamed, and no changed line
RenamesOnly(d) ==
    /\ Len(d.files_changed) >= 1
    /\ \A i \in 1..Len(d.files_changed) : d.files_changed[i].change_type = RENAMED
    /\ d.total_additions = 0
    /\ d.total_deletions = 0

\* C11: is_likely_refactor is true exactly when ten times the distance
\* between total_additions and total_deletions is below three times the
\* larger of them and at least one file is Renamed or Copied; with no added
\* and no removed line it is false, renames or not.
C11_RefactorExactly ==
    fn = "is_likely_refactor" =>
        LET a == arg.total_additions
            d == arg.total_deletions
            larger == IF a >= d THEN a ELSE d
            distance == IF a >= d THEN a - d ELSE d - a
            moved == {i \in 1..Len(arg.files_changed) :
                        arg.files_changed[i].change_type \in {RENAMED, COPIED}}
        IN  /\ ret <=> (10 * distance < 3 * larger /\ moved # {})
            /\ a = 0 /\ d = 0 => ret = FALSE

C11_Witness == fn = "is_likely_refactor" /\ RenamesOnly(arg) /\ ret = FALSE

\* C26: for every DiffAnalysis, whatever its files and totals, a true
\* is_likely_feature goes with a false is_likely_fix and a false
\* is_likely_refactor.
C26_FeatureExcludesFixAndRefactor ==
    (fn = "is_likely_feature" /\ ret) =>
        /\ ~is_likely_fix(arg)
        /\ ~is_likely_refactor(arg)

\* a likely feature of three files, one of them renamed, with both totals
\* positive: only the new file keeps it from being a likely fix, and only
\* the distance of the totals from being a likely refactor
C26_Witness ==
    /\ fn = "is_likely_feature"
    /\ ret
    /\ file_count(arg) = 3
    /\ \E i \in 1..3 : arg.files_changed[i].change_type = RENAMED
    /\ arg.total_additions = 5
    /\ arg.total_deletions = 1

(***************************************************************************)
(* Properties of the docs and test shares (SpecShare).                     *)
(***************************************************************************)
DocsCount(files) == Cardinality({i \in 1..Len(files) : files[i].is_docs})
TestCount(files) == Cardinality({i \in 1..Len(files) : files[i].is_test})

\* C12: _is_docs_change (_is_test_change) is true exactly when the docs
\* (test) files are strictly more than 70% of the files of the list: false
\* for the empty list and at exactly 70%.
C12_OverSeventyPercentExactly ==
    /\ fn = "_is_docs_change" => (ret <=> 10 * DocsCount(arg) > 7 * Len(arg))
    /\ fn = "_is_test_change" => (ret <=> 10 * TestCount(arg) > 7 * Len(arg))

(***************************************************************************)
(* Properties of the issue extraction (SpecText).                          *)
(***************************************************************************)
\* the references "#<digits>" of a text: a "#", then all the digits that
\* follow it, at least one
References(text) ==
    {SubSeq(text, q[1], q[2]) :
        q \in {r \in (1..Len(text)) \X (1..Len(text)) :
                /\ r[1] < r[2]
                /\ Char(text, r[1]) = "#"
                /\ \A k \in (r[1] + 1)..r[2] : IsDigit(Char(text, k))
                /\ (r[2] = Len(text) \/ ~IsDigit(Char(text, r[2] + 1)))}}

\* C8: _extract_related_issues returns exactly the "#<digits>" references of
\* the text, each once, in ascending order of Python's str comparison; the
\* example of the documentation gives ["#42", "#7"].
C8_IssuesAreTheReferencesSorted ==
    fn = "_extract_related_issues" =>
        /\ Range(ret) = References(arg)
        /\ Len(ret) = Cardinality(References(arg))
        /\ \A i \in 1..Len(ret) : \A j \in (i + 1)..Len(ret) : StrLess(ret[i], ret[j])
        /\ arg = SpecExample => ret = <<"#42", "#7">>

C8_Witness ==
    /\ fn = "_extract_related_issues"
    /\ arg = SpecExample
    /\ ret = <<"#42", "#7">>

(***************************************************************************)
(* Properties of the line count (SpecPatch).                               *)
(***************************************************************************)
\* the lines of the text that start with the sign and do not go on with it
SignedLines(diff_text, sign) ==
    LET lines == Split(diff_text, "\n")
    IN  {i \in 1..Len(lines) : /\ StartsWith(lines[i], sign)
                               /\ ~StartsWith(lines[i], sign \o sign)}

\* C20: for any patch text _count_diff_lines returns as additions the
\* number of lines that start with "+" and do not go on with "+", and as
\* deletions the number of lines that start with "-" and do not go on with
\* "-"; this includes added and removed blank lines and a changed line
\* that is the last line of the text.
C20_CountsSignedLines ==
    fn = "_count_diff_lines" =>
        ret = <<Cardinality(SignedLines(arg.diff, "+")),
                Cardinality(SignedLines(arg.diff, "-"))>>

\* the positions of the lines a preview may show: those that start with
\* "+" or "-" and are neither a hunk header nor a file header
ChangedLines(lines) ==
    {i \in 1..Len(lines) :
        /\ StartsWith(lines[i], "+") \/ StartsWith(lines[i], "-")
        /\ ~StartsWith(lines[i], "@@")
        /\ ~StartsWith(lines[i], "+++")
        /\ ~StartsWith(lines[i], "---")}

\* how many changed lines come before line i
ChangedBefore(lines, i) == Cardinality({j \in ChangedLines(lines) : j < i})

\* C21: the preview built in staged and in branch mode is the first (at
\* most 5) changed lines of the patch, in patch order, each cut to at most
\* 100 characters; so it has at most 5 lines of at most 100 characters.
C21_PreviewIsFirstFiveCut ==
    fn \in {"_get_diff_item_preview", "_get_diff_preview"} =>
        LET lines == Split(arg.diff, "\n")
            shown == {i \in ChangedLines(lines) : ChangedBefore(lines, i) < 5}
            out == Split(ret, "\n")
        IN  /\ shown = {} => ret = ""
            /\ shown # {} =>
                    /\ Len(out) = Cardinality(shown)
                    /\ \A i \in shown :
                            out[ChangedBefore(lines, i) + 1] = SubSeq(lines[i], 1, Min(100, Len(lines[i])))
            /\ Len(out) <= 5
            /\ \A j \in 1..Len(out) : Len(out[j]) <= 100

\* a staged preview of a patch with more than five changed lines, one of
\* them longer than 100 characters and shown cut
C21_Witness ==
    /\ fn = "_get_diff_item_preview"
    /\ LET lines == Split(arg.diff, "\n")
           out == Split(ret, "\n")
       IN  /\ Cardinality(ChangedLines(lines)) > 5
           /\ Len(out) = 5
           /\ Len(lines[2]) = 101
           /\ Len(out[1]) = 100

(***************************************************************************)
(* Properties of the providers (SpecProvider).                             *)
(***************************************************************************)
\* the positions in the log of the events of one kind
EventsAt(kind) == {i \in 1..Len(events) : events[i].kind = kind}

\* the attempts of the call, among the max_retries it may make, whose
\* answer holds content that is not blank
GoodAttempts ==
    {k \in 1..call.max_retries :
        /\ call.answers[k].kind = "json"
        /\ call.answers[k].response # None
        /\ NonBlank(call.answers[k].response)}

\* C29: generate sends no generation request when the health check fails
\* and raises ProviderUnavailableError; otherwise it makes at most
\* max_retries attempts, stops at the first one that returns content that
\* is not empty, sleeps between two attempts and not after the last one,
\* and when all attempts fail raises the error of the last failed attempt
\* (timeout, unavailable or the generic ProviderError).
C29_GenerateRetries ==
    (pc \in {"generated", "failed"} /\ call.op = "generate") =>
        LET posts == EventsAt("POST /api/generate")
            last == call.answers[call.max_retries].kind
        IN  /\ events[1].kind = "GET /api/tags"
            /\ call.tags # "200" =>
                    /\ posts = {}
                    /\ result.kind = "raise" /\ result.error = "ProviderUnavailableError"
            /\ call.tags = "200" =>
                    /\ Cardinality(posts) <= call.max_retries
                    /\ GoodAttempts # {} =>
                            /\ \A k \in GoodAttempts : Cardinality(posts) <= k
                            /\ Cardinality(posts) \in GoodAttempts
                            /\ result.kind = "return"
                            /\ events[Len(events)].kind = "POST /api/generate"
                    /\ GoodAttempts = {} =>
                            /\ Cardinality(posts) = call.max_retries
                            /\ result.kind = "raise"
                            /\ call.max_retries = 0 => result.error = "ProviderError"
                            /\ call.max_retries > 0 =>
                                   result.error =
                                       IF last \in {"Timeout", "ConnectTimeout"}
                                       THEN "GenerationTimeoutError"
                                       ELSE IF last = "ConnectionError"
                                       THEN "ProviderUnavailableError"
                                       ELSE "ProviderError"
                    /\ \A i \in EventsAt("sleep") :
                            /\ events[i - 1].kind = "POST /api/generate"
                            /\ i < Len(events)
                            /\ events[i + 1].kind = "POST /api/generate"
                    /\ \A i \in posts : i < Len(events) => events[i + 1].kind = "sleep"

\* three attempts that fail with a timeout, a refused connection and an
\* empty text: two sleeps, and the error of the third attempt
C29_Witness ==
    /\ pc = "failed"
    /\ call.op = "generate"
    /\ call.max_retries = 3
    /\ Len(events) = 6
    /\ events[3].kind = "sleep"
    /\ events[5].kind = "sleep"
    /\ events[6].kind = "POST /api/generate"
    /\ call.answers[1].kind = "Timeout"
    /\ call.answers[2].kind = "ConnectionError"
    /\ call.answers[3].kind = "json"
    /\ result.error = "ProviderError"

\* the candidates of the call in the order they are tried
CandidateAt(k) == IF k = 1 THEN call.primary ELSE call.fallback_providers[k - 1]

\* the positions of the candidates that can be constructed and pass their
\* health check
Qualifying ==
    {k \in 1..(1 + Len(call.fallback_providers)) :
        /\ CandidateAt(k).name \in {"ollama", "openai", "anthropic", "lmstudio"}
        /\ CandidateAt(k).config.valid
        /\ CandidateAt(k).health = "healthy"}

\* C30: create_with_fallback returns the first candidate, in the order
\* primary and then the fallbacks as listed, that constructs and passes its
\* health check; it tries no candidate after that one, returns no provider
\* whose health check failed, and raises ProviderError exactly when no
\* candidate qualifies.
C30_FirstQualifyingCandidate ==
    (pc \in {"created", "failed"} /\ call.op = "create_with_fallback") =>
        LET tried == {events[i].what : i \in EventsAt("create_provider")}
        IN  /\ Qualifying = {} <=> result.kind = "raise"
            /\ result.kind = "raise" => result.error = "ProviderError"
            /\ result.kind = "raise" => tried = 1..(1 + Len(call.fallback_providers))
            /\ Qualifying # {} =>
                    LET first == CHOOSE k \in Qualifying : \A j \in Qualifying : k <= j
                    IN  /\ result.provider = [name |-> CandidateAt(first).name,
                                               config |-> CandidateAt(first).config]
                        /\ tried = 1..first
                        /\ events[Len(events)] = Event("health_check", first)
            /\ \A i, j \in 1..Len(events) : i < j => events[i].what <= events[j].what

\* a primary that cannot be constructed, a first fallback that fails its
\* health check, a second fallback that is returned
C30_Witness ==
    /\ pc = "created"
    /\ call.op = "create_with_fallback"
    /\ ~call.primary.config.valid
    /\ Len(call.fallback_providers) = 2
    /\ call.fallback_providers[1].health = "unhealthy"
    /\ result.provider.name = call.fallback_providers[2].name
    /\ Len(events) = 5
    /\ events[5] = Event("health_check", 3)

====
